---- MODULE Spec2Model ----
(***************************************************************************)
(* Alpine Treeline Elevational Transects: a model of the generation        *)
(* scripts (Earth Engine), of the segment-joining validation script (R)    *)
(* and of the properties stated about them.                                *)
(*                                                                         *)
(* An image is a function whose DOMAIN is the set of its unmasked pixels.  *)
(* A multi-band image is a sequence of [name, img] bands (band order is    *)
(* significant).  A FeatureCollection is a sequence of features            *)
(* [geom, props]; a null property is a name absent from DOMAIN props.      *)
(***************************************************************************)
EXTENDS Integers, Sequences, FiniteSets, TLC

VARIABLES
    \* ---- centerline construction (unnamed/part_002) ----
    pcCL,                 \* position in the script
    ALOSelv,              \* elevation image
    broad_ATE,            \* broad alpine-treeline-ecotone mask image
    landforms,            \* raw ALOS landform classes
    landCover,            \* ImageCollection of the annual land-cover images
    medialAxis_PxCtds,    \* vectorized medial-axis pixel centroids
    CF_nonRidges,         \* closed forests of the non-ridge landforms
    nonF_ridges,          \* non-forested areas of the ridge landforms
    CF_inAllYrs,          \* closed forests in all the five years
    CF_nonF_elvCoords_Img,\* six-band image of elevations and coordinates
    combinedElvReducer,   \* the combined min/max reducer
    elvMinMax_perBuffer,  \* reduceRegions result, all basins
    transectCLs,          \* constructed centerlines
    \* ---- grouping (unnamed/part_003) and steepest identification (Step 4.1) ----
    pcSel,                   \* position in the two scripts
    centerlines_FC,          \* RawCenterlines_withBasinIDs
    segments_FC,             \* Raw_Centerline_Segments
    segmentBuffers_FC,       \* buffered segments
    mergedBuffers_FC,        \* one MultiPolygon per basin
    groupedBuffers_FC,       \* Grouped_Centerline_Segment_Buffers
    steepestSegments_FC,     \* joined groups carrying their steepest segment, all basins
    steepestCenterlines_FC,  \* identified, then length-filtered centerlines
    steepestTransects_FC,    \* Elevational_Transects
    \* ---- local forest elevation (Step 1.2.1); it reads ALOSelv and landCover too ----
    pcFE,                 \* position in the script
    fund_Niche_Edge,      \* fundamental niche edge of trees (input asset)
    CF_5yr,               \* closed forests in all the five years
    local_Forest_Elv,     \* elevation of the closed forests within the niche edge
    \* ---- fundamental niche edge (Step 1.1); it writes fund_Niche_Edge ----
    pcNE,                 \* position in the script
    k3Binary,             \* Global Mountain Explorer K3 mask
    TLHreprj,             \* annual climatic treeline elevations at 30 m
    avgTLH,               \* their temporal average, then within the K3 areas
    extracted,            \* regions within the vertical distance
    horizontal_Dist,      \* distance to the extracted regions, in pixels
    \* ---- medial axis between ridges and valleys (part_005) ----
    pcMA,                 \* position in the script
    LF_noInvaid,          \* ALOS landforms without the invalid stripes
    ridges,
    valleys,
    ridges_OR_valleys,
    segmented_Ridges,
    segmented_Valleys,
    segmented_ridgesORvalleys,
    medial_Axis,
    sqDist_MedialAxis,    \* the layer that is exported
    \* ---- transect segment joining (Technical_Validation, script 01) ----
    pcTV,                 \* position in the script
    NDVIsegments_SHP,     \* processed transect segments with the NDVI data
    VCHsegments_SHP,      \* processed transect segments with the VCH data
    NDVIsegments_DF,
    VCHsegments_DF,
    \* ---- visualization app (README.md) ----
    pcApp,                \* "off", "composed" (before Initialize) or "running"
    components,           \* the object c: the values of the widgets and the map layers
    url,                  \* the parameters of the page URL
    \* ---- Results sections of the generation scripts ----
    opened,               \* the script open in the Code Editor: its stage, 0 for none
    output,               \* the value of `var output` in the opened script
    lastRun,              \* what the last run of the opened script did
    assets,               \* the names of the assets in the working directory
    \* ---- transect segment joining, section 6: segments and transects ----
    sampled_SHP,          \* the sampled transects
    NDVIsegments_Spreaded,
    VCHsegments_Spreaded,
    transects_NDVIdiff,
    transects_VCHdiff,
    transects_TwoDiff,
    \* ---- visualization app: the onChange callbacks of a checkbox, one by one ----
    pending,              \* the callbacks still to run, the next one first
    calls,                \* the handlers invoked since the user's toggle
    atToggle,             \* the toggled checkbox and the components before the toggle
    \* ---- basin ID extraction (Step 3.2) ----
    pcBI,                        \* position in the script
    rawCenterlines_FC,           \* Raw_Centerlines (the script's centerlines_FC)
    basins_FC,                   \* Selected_Basins
    centroids_FC,
    centroids_withBasinIDs_FC,
    centerlines_withBasinIDs_FC, \* RawCenterlines_withBasinIDs
    \* ---- broad alpine treeline ecotone (the Step 1.2.1 file, lines 256-426); ----
    \* ---- it reads ALOSelv, fund_Niche_Edge and local_Forest_Elv, writes broad_ATE ----
    pcBA,                        \* position in the script
    land,                        \* mapped land surface of the Hansen dataset
    smoothed_Elv_10km,           \* Smoothed_Regional_Forest_Elevation
    remaining_Fund_Niche_Edge,
    forest_Buffer,
    real_Niche_Edge

clVars == <<pcCL, ALOSelv, broad_ATE, landforms, landCover, medialAxis_PxCtds,
            CF_nonRidges, nonF_ridges, CF_inAllYrs, CF_nonF_elvCoords_Img,
            combinedElvReducer, elvMinMax_perBuffer, transectCLs>>

selVars == <<pcSel, centerlines_FC, segments_FC, segmentBuffers_FC, mergedBuffers_FC,
             groupedBuffers_FC, steepestSegments_FC, steepestCenterlines_FC,
             steepestTransects_FC>>

feVars == <<pcFE, fund_Niche_Edge, CF_5yr, local_Forest_Elv>>

neVars == <<pcNE, k3Binary, TLHreprj, avgTLH, extracted, horizontal_Dist>>

maVars == <<pcMA, LF_noInvaid, ridges, valleys, ridges_OR_valleys,
            segmented_Ridges, segmented_Valleys, segmented_ridgesORvalleys,
            medial_Axis, sqDist_MedialAxis>>

tvVars == <<pcTV, NDVIsegments_SHP, VCHsegments_SHP, NDVIsegments_DF, VCHsegments_DF>>

appVars == <<pcApp, components, url>>

genVars == <<opened, output, lastRun, assets>>

tjVars == <<sampled_SHP, NDVIsegments_Spreaded, VCHsegments_Spreaded,
            transects_NDVIdiff, transects_VCHdiff, transects_TwoDiff>>

evVars == <<pending, calls, atToggle>>

biVars == <<pcBI, rawCenterlines_FC, basins_FC, centroids_FC, centroids_withBasinIDs_FC,
            centerlines_withBasinIDs_FC>>

baVars == <<pcBA, land, smoothed_Elv_10km, remaining_Fund_Niche_Edge, forest_Buffer,
            real_Niche_Edge>>

vars == <<clVars, selVars, feVars, neVars, maVars, tvVars, appVars, genVars, tjVars, evVars, biVars, baVars>>

----------------------------------------------------------------------------
(* Generic helpers *)

Range(s) == {s[i] : i \in DOMAIN s}

RECURSIVE Flatten(_)
Flatten(ss) == IF ss = <<>> THEN <<>> ELSE Head(ss) \o Flatten(Tail(ss))

MapSeq(F(_), s) == [i \in DOMAIN s |-> F(s[i])]

SetMin(S) == CHOOSE x \in S : \A y \in S : x <= y
SetMax(S) == CHOOSE x \in S : \A y \in S : x >= y

\* Properties of b not named in "exclude", laid over the properties of a
\* (ee.Feature.copyProperties).
CopyProperties(a, b, exclude) ==
    [n \in (DOMAIN a) \cup ((DOMAIN b) \ exclude) |->
        IF n \in (DOMAIN b) \ exclude THEN b[n] ELSE a[n]]

----------------------------------------------------------------------------
(* Image algebra of the platform, on images as partial functions *)

\* img.updateMask(m): valid where img is valid and m is valid and non-zero.
updateMask(img, m) ==
    [p \in {q \in (DOMAIN img) \cap (DOMAIN m) : m[q] # 0} |-> img[p]]

\* img.selfMask()
selfMask(img) == updateMask(img, img)

gte(img, k) == [p \in DOMAIN img |-> IF img[p] >= k THEN 1 ELSE 0]
lte(img, k) == [p \in DOMAIN img |-> IF img[p] <= k THEN 1 ELSE 0]
And(a, b) ==
    [p \in (DOMAIN a) \cap (DOMAIN b) |-> IF a[p] # 0 /\ b[p] # 0 THEN 1 ELSE 0]
Or(a, b) ==
    [p \in (DOMAIN a) \cap (DOMAIN b) |-> IF a[p] # 0 \/ b[p] # 0 THEN 1 ELSE 0]
Not(a) == [p \in DOMAIN a |-> IF a[p] = 0 THEN 1 ELSE 0]

\* ImageCollection.min(): per-pixel minimum over the images valid there.
CollectionMin(col) ==
    LET valid == UNION {DOMAIN col[i] : i \in DOMAIN col}
    IN  [p \in valid |-> SetMin({col[i][p] : i \in {j \in DOMAIN col : p \in DOMAIN col[j]}})]

\* A multi-band image: a sequence of bands [name, img].
Band(name, img) == <<[name |-> name, img |-> img]>>
addBands(a, b) == a \o b
bandNames(a) == [i \in DOMAIN a |-> a[i].name]
BandNamed(a, name) == (CHOOSE i \in DOMAIN a : a[i].name = name)
selectBands(a, names, newNames) ==
    [i \in DOMAIN names |-> [name |-> newNames[i], img |-> a[BandNamed(a, names[i])].img]]
updateMaskBands(a, m) == [i \in DOMAIN a |-> [name |-> a[i].name, img |-> updateMask(a[i].img, m)]]

NoProps == [n \in {} |-> 0]

ISqrt(n) == CHOOSE r \in 0..n : r * r <= n /\ n < (r + 1) * (r + 1)

----------------------------------------------------------------------------
(* Centerline construction: unnamed/part_002 *)

\* The pixels of the area of interest, <<longitude, latitude>> in pixel units.
Pixels == {<<0, 0>>, <<3, 0>>, <<0, 4>>}
Long(p) == p[1]
Lat(p) == p[2]
SqPixelDist(p, q) == (p[1] - q[1]) * (p[1] - q[1]) + (p[2] - q[2]) * (p[2] - q[2])

\* prj_Info.scale: metres per pixel.
prjScale == 30

MaxElv == 2
Elevations == 1..MaxElv
LandformInputs == {14, 15}
\* Land-cover class of one pixel in 2015..2019.
LCHistories == {<<111, 116, 112, 114, 115>>,
                <<20, 100, 30, 60, 90>>,
                <<111, 111, 30, 111, 111>>}
NumRandomValues == 2
RandomValues == 1..NumRandomValues

\* Selected water basins (input asset): each covers some pixels.
selectedBasins ==
    << [geom |-> {<<0, 0>>, <<3, 0>>}, props |-> [HYBAS_ID |-> 1]],
       [geom |-> {<<0, 4>>}, props |-> [HYBAS_ID |-> 2]] >>

PxCtd(p, d) == [geom |-> [type |-> "Point", at |-> p],
                props |-> [medialAxis_sqDist_inPixels |-> d]]

extractRidgeLandforms(lf) == lte(lf, 14)

extractAnnualClosedForests(lcImg) == And(gte(lcImg, 111), lte(lcImg, 116))
extractClosedForests_inAllYears(landCoverImgCol) ==
    CollectionMin(MapSeq(extractAnnualClosedForests, landCoverImgCol))

extractAnnualNonForested(lcImg) == And(gte(lcImg, 20), lte(lcImg, 100))
extractNonForested_inAllYears(landCoverImgCol) ==
    CollectionMin(MapSeq(extractAnnualNonForested, landCoverImgCol))

\* ee.Image.pixelLonLat(): bands "longitude", "latitude", valid everywhere.
pixelLonLat ==
    Band("longitude", [p \in Pixels |-> Long(p)]) \o Band("latitude", [p \in Pixels |-> Lat(p)])

create_CF_elvCoords(elevation, CF_img) ==
    addBands(Band("CF_elv", updateMask(elevation, CF_img)),
             selectBands(updateMaskBands(pixelLonLat, CF_img),
                         <<"latitude", "longitude">>, <<"CF_lat", "CF_long">>))

create_nonF_elvCoords(elevation, nonF_img) ==
    addBands(Band("nonF_elv", updateMask(elevation, nonF_img)),
             selectBands(updateMaskBands(pixelLonLat, nonF_img),
                         <<"latitude", "longitude">>, <<"nonF_lat", "nonF_long">>))

\* Mutant: the bands combined in the other order.
CombineElvCoords_swapped(CF_elvCoords, nonF_elvCoords) == addBands(nonF_elvCoords, CF_elvCoords)

\* CF_elvCoords_Img.addBands(nonF_elvCoords_Img)
CombineElvCoords(CF_elvCoords, nonF_elvCoords) == addBands(CF_elvCoords, nonF_elvCoords)

\* ee.Reducer.min/max({numInputs: n}).setOutputs(names); combine(sharedInputs:
\* false) takes the inputs of reducer 1 followed by those of reducer 2.
generateCombinedReducer(CF_elvCoords, nonF_elvCoords) ==
    << [kind |-> "min", numInputs |-> 3, outputs |-> bandNames(CF_elvCoords)],
       [kind |-> "max", numInputs |-> 3, outputs |-> bandNames(nonF_elvCoords)] >>

\* The outputs one reducer can give over a region: the extreme of its first
\* input with the other inputs taken at the same pixel; any of the tied
\* pixels; every output null when no pixel has all inputs unmasked.
ReducerOutcomes(r, inputs, region) ==
    LET valid == {p \in region : \A i \in DOMAIN inputs : p \in DOMAIN inputs[i]}
        best == {p \in valid : \A q \in valid :
                    IF r.kind = "min" THEN inputs[1][p] <= inputs[1][q]
                                      ELSE inputs[1][p] >= inputs[1][q]}
    IN  IF valid = {} THEN {NoProps}
        ELSE {[n \in Range(r.outputs) |->
                  inputs[CHOOSE i \in DOMAIN r.outputs : r.outputs[i] = n][p]] : p \in best}

CombinedOutcomes(cr, image, region) ==
    LET in1 == [i \in 1..cr[1].numInputs |-> image[i].img]
        in2 == [i \in 1..cr[2].numInputs |-> image[cr[1].numInputs + i].img]
    IN  {o1 @@ o2 : o1 \in ReducerOutcomes(cr[1], in1, region),
                    o2 \in ReducerOutcomes(cr[2], in2, region)}

\* Pixels whose centre lies in a geometry.
PixelsIn(geom) ==
    IF geom.type = "Circle"
    THEN {q \in Pixels : prjScale * prjScale * SqPixelDist(q, geom.at)
                            <= geom.radius * geom.radius}
    ELSE {geom.at}

\* image.reduceRegions(collection, reducer): the set of collections it can give.
RECURSIVE ReduceRegions(_, _, _)
ReduceRegions(image, collection, reducer) ==
    IF collection = <<>> THEN {<<>>}
    ELSE {<<[geom |-> Head(collection).geom, props |-> o @@ Head(collection).props]>> \o rest :
             o \in CombinedOutcomes(reducer, image, PixelsIn(Head(collection).geom)),
             rest \in ReduceRegions(image, Tail(collection), reducer)}

\* pxCtd.buffer(sqrt(sqDist) * 30)
BufferPxCtd(pxCtd) ==
    [geom |-> [type |-> "Circle", at |-> pxCtd.geom.at,
               radius |-> ISqrt(pxCtd.props.medialAxis_sqDist_inPixels) * prjScale],
     props |-> pxCtd.props]

filterBounds(collection, basinGeom) ==
    SelectSeq(collection, LAMBDA f : f.geom.at \in basinGeom)

pxCtd_Buffers(allPxCtds, basin) == MapSeq(BufferPxCtd, filterBounds(allPxCtds, basin.geom))

\* Buffers with both extremes, the non-forested one above the closed-forest one.
InSelectedBuffers(f) ==
    /\ {"nonF_elv", "CF_elv"} \subseteq DOMAIN f.props
    /\ f.props.nonF_elv > f.props.CF_elv
\* Mutant: only the notNull filter, without the greaterThan filter.
selectedBuffers_notNullOnly(elvMinMax) ==
    SelectSeq(elvMinMax, LAMBDA f : {"nonF_elv", "CF_elv"} \subseteq DOMAIN f.props)

selectedBuffers(elvMinMax) == SelectSeq(elvMinMax, InSelectedBuffers)

\* The centerline of one selected buffer.
LineLength(coords) ==
    prjScale * ISqrt(SqPixelDist(coords[1], coords[2]))
ConstructCL(buffer) ==
    LET lineString == << <<buffer.props.CF_long, buffer.props.CF_lat>>,
                         <<buffer.props.nonF_long, buffer.props.nonF_lat>> >>
        elvRange == buffer.props.nonF_elv - buffer.props.CF_elv
        CL == [CL_length |-> LineLength(lineString), elvRange |-> elvRange]
    IN  [geom |-> [type |-> "LineString", coords |-> lineString],
         props |-> CopyProperties(CL, buffer.props, {"count", "medialAxis_sqDist_inPixels"})]

transectCLs_perBasin(elvMinMax) == MapSeq(ConstructCL, selectedBuffers(elvMinMax))

\* The reduceRegions results the basins can give, one collection per basin.
RECURSIVE ElvMinMax_byBasin(_, _, _, _)
ElvMinMax_byBasin(allBasins, allPxCtds, image, reducer) ==
    IF allBasins = <<>> THEN {<<>>}
    ELSE {<<e>> \o rest :
             e \in ReduceRegions(image, pxCtd_Buffers(allPxCtds, Head(allBasins)), reducer),
             rest \in ElvMinMax_byBasin(Tail(allBasins), allPxCtds, image, reducer)}

\* collection.randomColumn(name) with the drawn values.
randomColumn(collection, name, values) ==
    [i \in DOMAIN collection |->
        [geom |-> collection[i].geom, props |-> (name :> values[i]) @@ collection[i].props]]


\* Input assets and datasets of the centerline-construction script.
PxCtdInputs ==
    {<<PxCtd(<<3, 0>>, d1), PxCtd(<<0, 4>>, d2)>> : d1 \in {9, 25}, d2 \in {16, 25}}
ATEInputs == {[p \in S |-> 1] : S \in {Pixels, Pixels \ {<<0, 0>>}}}

InitCL ==
    /\ pcCL = "datasets"
    /\ ALOSelv \in [Pixels -> Elevations]
    /\ broad_ATE \in ATEInputs
    /\ landforms \in [Pixels -> LandformInputs]
    /\ \E h \in [Pixels -> LCHistories] :
          landCover = [y \in 1..5 |-> [p \in Pixels |-> h[p][y]]]
    /\ medialAxis_PxCtds \in PxCtdInputs
    /\ CF_nonRidges = NoProps
    /\ nonF_ridges = NoProps
    /\ CF_inAllYrs = NoProps
    /\ CF_nonF_elvCoords_Img = <<>>
    /\ combinedElvReducer = <<>>
    /\ elvMinMax_perBuffer = <<>>
    /\ transectCLs = <<>>

\* Lines 339-368: ridges and non-ridges within the broad ATE, closed forests
\* of the non-ridge landforms, non-forested areas of the ridge landforms.
ExtractLandCoverOfLandforms ==
    /\ pcCL = "datasets"
    /\ LET LF_noInvaid_ATE == updateMask(landforms, broad_ATE)
           ridges_inATE == extractRidgeLandforms(LF_noInvaid_ATE)
           nonRidges == Not(ridges_inATE)
           nonF_inAllYrs == extractNonForested_inAllYears(landCover)
       IN  /\ CF_inAllYrs' = extractClosedForests_inAllYears(landCover)
           /\ CF_nonRidges' = selfMask(updateMask(CF_inAllYrs', nonRidges))
           /\ nonF_ridges' = selfMask(updateMask(nonF_inAllYrs, ridges_inATE))
    /\ pcCL' = "masks"
    /\ UNCHANGED <<ALOSelv, broad_ATE, landforms, landCover, medialAxis_PxCtds,
                   CF_nonF_elvCoords_Img, combinedElvReducer, elvMinMax_perBuffer,
                   transectCLs>>
    /\ UNCHANGED <<selVars, feVars, neVars, maVars, tvVars, appVars, genVars, tjVars, evVars, biVars, baVars>>

\* Lines 370-388: the six-band image and the combined reducer.
CreateElvCoordsAndReducer ==
    /\ pcCL = "masks"
    /\ LET CF_elvCoords_Img == create_CF_elvCoords(ALOSelv, CF_nonRidges)
           nonF_elvCoords_Img == create_nonF_elvCoords(ALOSelv, nonF_ridges)
       IN  /\ CF_nonF_elvCoords_Img' = CombineElvCoords(CF_elvCoords_Img, nonF_elvCoords_Img)
           /\ combinedElvReducer' = generateCombinedReducer(CF_elvCoords_Img, nonF_elvCoords_Img)
    /\ pcCL' = "images"
    /\ UNCHANGED <<ALOSelv, broad_ATE, landforms, landCover, medialAxis_PxCtds,
                   CF_nonRidges, nonF_ridges, CF_inAllYrs, elvMinMax_perBuffer, transectCLs>>
    /\ UNCHANGED <<selVars, feVars, neVars, maVars, tvVars, appVars, genVars, tjVars, evVars, biVars, baVars>>

\* Lines 225-316, 391: constructTransectCLs_byBasin.
constructTransectCLs_byBasin ==
    /\ pcCL = "images"
    /\ \E e \in ElvMinMax_byBasin(selectedBasins, medialAxis_PxCtds,
                                  CF_nonF_elvCoords_Img, combinedElvReducer) :
          LET allTransectCLs == MapSeq(transectCLs_perBasin, e)
              allTransectCLs_flattened == Flatten(allTransectCLs)
          IN  /\ elvMinMax_perBuffer' = Flatten(e)
              /\ \E values \in [DOMAIN allTransectCLs_flattened -> RandomValues] :
                    transectCLs' = randomColumn(allTransectCLs_flattened, "CL_ID", values)
    /\ pcCL' = "constructed"
    /\ UNCHANGED <<ALOSelv, broad_ATE, landforms, landCover, medialAxis_PxCtds,
                   CF_nonRidges, nonF_ridges, CF_inAllYrs, CF_nonF_elvCoords_Img,
                   combinedElvReducer>>
    /\ UNCHANGED <<selVars, feVars, neVars, maVars, tvVars, appVars, genVars, tjVars, evVars, biVars, baVars>>

NextCL ==
    \/ ExtractLandCoverOfLandforms
    \/ CreateElvCoordsAndReducer
    \/ constructTransectCLs_byBasin



----------------------------------------------------------------------------
(* Centerline grouping (unnamed/part_003) and steepest-transect             *)
(* identification (Step 4.1).  Centerlines lie along one straight line; a   *)
(* geometry is the stretch [lo, hi] of that line it covers, in eighths of   *)
(* a metre, so that CL_length / 8 is a whole number of units.               *)

Metres(m) == 8 * m

groupingDistance_Num == 90
lowerThres_Num == 300
upperThres_Num == 3000
bufferDistance_Num == 45

Stretch(lo, hi) == [lo |-> lo, hi |-> hi]
Intersects(a, b) == a.lo <= b.hi /\ b.lo <= a.hi
Centroid(g) == (g.lo + g.hi) \div 2
BufferGeom(g, dist) == Stretch(g.lo - Metres(dist), g.hi + Metres(dist))
Intersection(a, b) ==
    Stretch(IF a.lo >= b.lo THEN a.lo ELSE b.lo, IF a.hi <= b.hi THEN a.hi ELSE b.hi)

\* The union of a set of stretches: its disjoint connected parts.
RECURSIVE UnionParts(_)
UnionParts(S) ==
    IF \E a, b \in S : a # b /\ Intersects(a, b)
    THEN LET pair == CHOOSE ab \in S \X S : ab[1] # ab[2] /\ Intersects(ab[1], ab[2])
             a == pair[1]
             b == pair[2]
         IN  UnionParts((S \ {a, b}) \cup
                 {Stretch(IF a.lo <= b.lo THEN a.lo ELSE b.lo,
                          IF a.hi >= b.hi THEN a.hi ELSE b.hi)})
    ELSE S

\* A set of disjoint stretches listed along the line.
RECURSIVE SortParts(_)
SortParts(S) ==
    IF S = {} THEN <<>>
    ELSE LET first == CHOOSE a \in S : \A b \in S : a.lo <= b.lo
         IN  <<first>> \o SortParts(S \ {first})

\* list.distinct(): first occurrences, in order.
RECURSIVE Distinct(_)
Distinct(s) ==
    IF s = <<>> THEN <<>>
    ELSE LET d == Distinct(SubSeq(s, 1, Len(s) - 1))
         IN  IF s[Len(s)] \in Range(d) THEN d ELSE Append(d, s[Len(s)])

\* All the sequences taking their i-th element from the i-th set.
RECURSIVE SeqProduct(_)
SeqProduct(ss) ==
    IF ss = <<>> THEN {<<>>}
    ELSE {<<x>> \o rest : x \in Head(ss), rest \in SeqProduct(Tail(ss))}

aggregate_array(collection, name) == [i \in DOMAIN collection |-> collection[i].props[name]]
filterEq(collection, name, value) == SelectSeq(collection, LAMBDA f : f.props[name] = value)

\* part_003, 1): the mid-quarter of a centerline around its centroid.
SegmentCenterline(centerline_Ftr) ==
    LET segmentingRadius_Num == Metres(centerline_Ftr.props.CL_length) \div 8
        c == Centroid(centerline_Ftr.geom)
        segmentingCircle == Stretch(c - segmentingRadius_Num, c + segmentingRadius_Num)
    IN  [geom |-> Intersection(centerline_Ftr.geom, segmentingCircle),
         props |-> centerline_Ftr.props]

\* part_003, 2)
BufferSegment(segment_Ftr) ==
    [geom |-> BufferGeom(segment_Ftr.geom, groupingDistance_Num), props |-> segment_Ftr.props]

\* Mutant: the buffers of every basin merged.
MergeBuffers_allBasins(segmentBuffers, basinID_Num) ==
    LET merged == UnionParts({segmentBuffers[i].geom : i \in DOMAIN segmentBuffers})
    IN  [geom |-> [coordinates |-> SortParts(merged)], props |-> [HYBAS_ID |-> basinID_Num]]

\* part_003, 3): the buffers of one basin merged into one MultiPolygon.
MergeBuffers_perBasin(segmentBuffers, basinID_Num) ==
    LET buffers_perBasin_FC == filterEq(segmentBuffers, "HYBAS_ID", basinID_Num)
        merged == UnionParts({buffers_perBasin_FC[i].geom : i \in DOMAIN buffers_perBasin_FC})
    IN  [geom |-> [coordinates |-> SortParts(merged)], props |-> [HYBAS_ID |-> basinID_Num]]

\* Mutant: the MultiPolygon of a basin kept as one feature.
IndividualPolygons_whole(merged_perBasin_Ftr) ==
    LET coordinates_List == merged_perBasin_Ftr.geom.coordinates
    IN  <<[geom |-> Stretch(coordinates_List[1].lo, coordinates_List[Len(coordinates_List)].hi),
           props |-> [HYBAS_ID |-> merged_perBasin_Ftr.props.HYBAS_ID]]>>

\* part_003, 4): one Polygon per element of the coordinate list.
IndividualPolygons(merged_perBasin_Ftr) ==
    [i \in DOMAIN merged_perBasin_Ftr.geom.coordinates |->
        [geom |-> merged_perBasin_Ftr.geom.coordinates[i],
         props |-> [HYBAS_ID |-> merged_perBasin_Ftr.props.HYBAS_ID]]]


\* Step 4.1, the save-first join ordered by elvRange, descending: the joined
\* features one group can give (none when no segment intersects it; any of
\* the segments tied for the greatest elvRange).
SaveFirst_perGroup(group_Ftr, secondary) ==
    LET matches == {i \in DOMAIN secondary : Intersects(group_Ftr.geom, secondary[i].geom)}
        firsts == {i \in matches : \A j \in matches :
                      secondary[i].props.elvRange >= secondary[j].props.elvRange}
    IN  {[geom |-> group_Ftr.geom,
          props |-> ("steepest" :> secondary[i]) @@ group_Ftr.props] : i \in firsts}

\* Mutant: an inner join, one joined feature per intersecting segment.
saveFirst_Join_inner(primary, secondary) ==
    {Flatten([g \in DOMAIN primary |->
        LET matches == SelectSeq(secondary, LAMBDA sg : Intersects(primary[g].geom, sg.geom))
        IN  [m \in DOMAIN matches |->
                [geom |-> primary[g].geom,
                 props |-> ("steepest" :> matches[m]) @@ primary[g].props]]])}

saveFirst_Join(primary, secondary) ==
    LET joinable == SelectSeq(primary, LAMBDA g : SaveFirst_perGroup(g, secondary) # {})
    IN  SeqProduct([i \in DOMAIN joinable |-> SaveFirst_perGroup(joinable[i], secondary)])

\* The centerline with the ID of the steepest segment: filter(...).first().
steepestCenterline_perGroup(joined_Ftr, centerlines_perBasin_FC) ==
    Head(filterEq(centerlines_perBasin_FC, "CL_ID", joined_Ftr.props.steepest.props.CL_ID))

\* The joined collections one basin can give.
steepestSegments_perBasin(basinID_Num, centerlines, segments, groupedBuffers) ==
    saveFirst_Join(filterEq(groupedBuffers, "HYBAS_ID", basinID_Num),
                   filterEq(segments, "HYBAS_ID", basinID_Num))

steepestCenterlines_perBasin(joined_perBasin, centerlines) ==
    [k \in DOMAIN joined_perBasin |->
        steepestCenterline_perGroup(joined_perBasin[k],
            filterEq(centerlines, "HYBAS_ID", joined_perBasin[k].props.HYBAS_ID))]

\* Mutant: the lower threshold only.
length_Filter_lowerOnly(f) == f.props.CL_length >= lowerThres_Num

length_Filter(f) ==
    /\ f.props.CL_length >= lowerThres_Num
    /\ f.props.CL_length <= upperThres_Num

BufferCenterline(steepestCenterline_Ftr) ==
    [geom |-> BufferGeom(steepestCenterline_Ftr.geom, bufferDistance_Num),
     props |-> steepestCenterline_Ftr.props]

\* Input asset RawCenterlines_withBasinIDs: three centerlines.
MaxElvRange == 2
CentroidInputs == <<0, 400, 1000>>
LengthInputs == {299, 300, 3000, 3001}
BasinIDInputs == {1, 2}
CenterlineInput(c, id, basin, len, range) ==
    [geom |-> Stretch(Metres(c) - (Metres(len) \div 2), Metres(c) + (Metres(len) \div 2)),
     props |-> [CL_ID |-> id, HYBAS_ID |-> basin, CL_length |-> len, elvRange |-> range]]

InitSel ==
    /\ pcSel = "centerlines"
    /\ \E id \in [2..3 -> RandomValues], basin \in [2..3 -> BasinIDInputs],
          len \in [1..3 -> LengthInputs], range \in [1..3 -> 1..MaxElvRange] :
          centerlines_FC =
              [i \in 1..3 |-> CenterlineInput(CentroidInputs[i],
                                              IF i = 1 THEN 1 ELSE id[i],
                                              IF i = 1 THEN 1 ELSE basin[i],
                                              len[i], range[i])]
    /\ segments_FC = <<>>
    /\ segmentBuffers_FC = <<>>
    /\ mergedBuffers_FC = <<>>
    /\ groupedBuffers_FC = <<>>
    /\ steepestSegments_FC = <<>>
    /\ steepestCenterlines_FC = <<>>
    /\ steepestTransects_FC = <<>>

IdleSel ==
    /\ pcSel = "off"
    /\ centerlines_FC = <<>>
    /\ segments_FC = <<>>
    /\ segmentBuffers_FC = <<>>
    /\ mergedBuffers_FC = <<>>
    /\ groupedBuffers_FC = <<>>
    /\ steepestSegments_FC = <<>>
    /\ steepestCenterlines_FC = <<>>
    /\ steepestTransects_FC = <<>>

IdleCL ==
    /\ pcCL = "off"
    /\ ALOSelv = NoProps
    /\ broad_ATE = NoProps
    /\ landforms = NoProps
    /\ landCover = <<>>
    /\ medialAxis_PxCtds = <<>>
    /\ CF_nonRidges = NoProps
    /\ nonF_ridges = NoProps
    /\ CF_inAllYrs = NoProps
    /\ CF_nonF_elvCoords_Img = <<>>
    /\ combinedElvReducer = <<>>
    /\ elvMinMax_perBuffer = <<>>
    /\ transectCLs = <<>>

\* part_003, lines 51-68.
SegmentCenterlines ==
    /\ pcSel = "centerlines"
    /\ segments_FC' = MapSeq(SegmentCenterline, centerlines_FC)
    /\ pcSel' = "segments"
    /\ UNCHANGED <<centerlines_FC, segmentBuffers_FC, mergedBuffers_FC, groupedBuffers_FC,
                   steepestSegments_FC, steepestCenterlines_FC, steepestTransects_FC>>
    /\ UNCHANGED <<clVars, feVars, neVars, maVars, tvVars, appVars, genVars, tjVars, evVars, biVars, baVars>>

\* part_003, lines 75-77.
BufferSegments ==
    /\ pcSel = "segments"
    /\ segmentBuffers_FC' = MapSeq(BufferSegment, segments_FC)
    /\ pcSel' = "buffers"
    /\ UNCHANGED <<centerlines_FC, segments_FC, mergedBuffers_FC, groupedBuffers_FC,
                   steepestSegments_FC, steepestCenterlines_FC, steepestTransects_FC>>
    /\ UNCHANGED <<clVars, feVars, neVars, maVars, tvVars, appVars, genVars, tjVars, evVars, biVars, baVars>>

\* part_003, lines 85-107.
MergeBuffers ==
    /\ pcSel = "buffers"
    /\ LET basinIDs_List == Distinct(aggregate_array(segmentBuffers_FC, "HYBAS_ID"))
       IN  mergedBuffers_FC' =
               [b \in DOMAIN basinIDs_List |->
                   MergeBuffers_perBasin(segmentBuffers_FC, basinIDs_List[b])]
    /\ pcSel' = "merged"
    /\ UNCHANGED <<centerlines_FC, segments_FC, segmentBuffers_FC, groupedBuffers_FC,
                   steepestSegments_FC, steepestCenterlines_FC, steepestTransects_FC>>
    /\ UNCHANGED <<clVars, feVars, neVars, maVars, tvVars, appVars, genVars, tjVars, evVars, biVars, baVars>>

\* part_003, lines 115-143.
GroupBuffers ==
    /\ pcSel = "merged"
    /\ groupedBuffers_FC' = Flatten(MapSeq(IndividualPolygons, mergedBuffers_FC))
    /\ pcSel' = "grouped"
    /\ UNCHANGED <<centerlines_FC, segments_FC, segmentBuffers_FC, mergedBuffers_FC,
                   steepestSegments_FC, steepestCenterlines_FC, steepestTransects_FC>>
    /\ UNCHANGED <<clVars, feVars, neVars, maVars, tvVars, appVars, genVars, tjVars, evVars, biVars, baVars>>

\* Step 4.1, lines 78-134.
IdentifySteepestCenterlines ==
    /\ pcSel = "grouped"
    /\ LET basinIDs_List == Distinct(aggregate_array(groupedBuffers_FC, "HYBAS_ID"))
       IN  \E joined \in SeqProduct([b \in DOMAIN basinIDs_List |->
                          steepestSegments_perBasin(basinIDs_List[b], centerlines_FC,
                                                    segments_FC, groupedBuffers_FC)]) :
              /\ steepestSegments_FC' = Flatten(joined)
              /\ steepestCenterlines_FC' =
                     Flatten([b \in DOMAIN joined |->
                                 steepestCenterlines_perBasin(joined[b], centerlines_FC)])
    /\ pcSel' = "identified"
    /\ UNCHANGED <<centerlines_FC, segments_FC, segmentBuffers_FC, mergedBuffers_FC,
                   groupedBuffers_FC, steepestTransects_FC>>
    /\ UNCHANGED <<clVars, feVars, neVars, maVars, tvVars, appVars, genVars, tjVars, evVars, biVars, baVars>>

\* Step 4.1, lines 141-148.
SelectByLength ==
    /\ pcSel = "identified"
    /\ steepestCenterlines_FC' = SelectSeq(steepestCenterlines_FC, length_Filter)
    /\ pcSel' = "selected"
    /\ UNCHANGED <<centerlines_FC, segments_FC, segmentBuffers_FC, mergedBuffers_FC,
                   groupedBuffers_FC, steepestSegments_FC, steepestTransects_FC>>
    /\ UNCHANGED <<clVars, feVars, neVars, maVars, tvVars, appVars, genVars, tjVars, evVars, biVars, baVars>>

\* Step 4.1, lines 155-159.
BufferSteepestCenterlines ==
    /\ pcSel = "selected"
    /\ steepestTransects_FC' = MapSeq(BufferCenterline, steepestCenterlines_FC)
    /\ pcSel' = "transects"
    /\ UNCHANGED <<centerlines_FC, segments_FC, segmentBuffers_FC, mergedBuffers_FC,
                   groupedBuffers_FC, steepestSegments_FC, steepestCenterlines_FC>>
    /\ UNCHANGED <<clVars, feVars, neVars, maVars, tvVars, appVars, genVars, tjVars, evVars, biVars, baVars>>

NextSel ==
    \/ SegmentCenterlines
    \/ BufferSegments
    \/ MergeBuffers
    \/ GroupBuffers
    \/ IdentifySteepestCenterlines
    \/ SelectByLength
    \/ BufferSteepestCenterlines

----------------------------------------------------------------------------
(* Local forest elevation determination: Step 1.2.1, lines 47-100 *)

\* Mutant: the lower class bound only.
extractCF_noUpperBound(lcImg) == gte(lcImg, 111)

\* Function to extract the annual closed forests.
extractCF(lcImg) == And(gte(lcImg, 111), lte(lcImg, 116))

\* Land-cover classes around the closed-forest classes 111..116.
LCClassInputs == {110, 111, 116, 117}
NicheEdgeInputs == {[p \in S |-> 1] : S \in {Pixels, Pixels \ {<<3, 0>>}}}

\* Datasets of Step 1.2.1; the land cover of the pixel <<0, 0>> takes every
\* five-year history of LCClassInputs.  The centerline-construction script
\* reads the same land cover.
InitFE ==
    /\ pcFE = "datasets"
    /\ fund_Niche_Edge \in NicheEdgeInputs
    /\ CF_5yr = NoProps
    /\ local_Forest_Elv = NoProps
    /\ pcCL = "datasets"
    /\ ALOSelv \in {[p \in Pixels |-> e] : e \in Elevations}
    /\ broad_ATE = [p \in Pixels |-> 1]
    /\ landforms = [p \in Pixels |-> IF p = <<3, 0>> THEN 14 ELSE 15]
    /\ \E h \in [1..5 -> LCClassInputs], g \in LCHistories :
          landCover = [y \in 1..5 |->
                          [p \in Pixels |-> IF p = <<0, 0>> THEN h[y] ELSE g[y]]]
    /\ medialAxis_PxCtds = <<PxCtd(<<3, 0>>, 25), PxCtd(<<0, 4>>, 25)>>
    /\ CF_nonRidges = NoProps
    /\ nonF_ridges = NoProps
    /\ CF_inAllYrs = NoProps
    /\ CF_nonF_elvCoords_Img = <<>>
    /\ combinedElvReducer = <<>>
    /\ elvMinMax_perBuffer = <<>>
    /\ transectCLs = <<>>

IdleFE ==
    /\ pcFE = "off"
    /\ fund_Niche_Edge = NoProps
    /\ CF_5yr = NoProps
    /\ local_Forest_Elv = NoProps

\* Step 1.2.1, lines 89-100.
DetermineLocalForestElv ==
    /\ pcFE = "datasets"
    /\ LET annualCF == MapSeq(extractCF, landCover)
       IN  /\ CF_5yr' = CollectionMin(annualCF)
           /\ local_Forest_Elv' = updateMask(updateMask(ALOSelv, fund_Niche_Edge), CF_5yr')
    /\ pcFE' = "determined"
    /\ UNCHANGED <<fund_Niche_Edge>>
    /\ UNCHANGED <<clVars, selVars, neVars, maVars, tvVars, appVars, genVars, tjVars, evVars, biVars, baVars>>

NextFE ==
    \/ DetermineLocalForestElv
    \/ ExtractLandCoverOfLandforms

----------------------------------------------------------------------------
(* Fundamental niche edge identification: Step 1.1, lines 115-163.          *)
(* Its pixels lie in one row of the 30-m grid, at columns 0, 100, 201, 301. *)

NEPixels == {<<0, 0>>, <<100, 0>>, <<201, 0>>, <<301, 0>>}

vertical_Thres == 500
horizontal_Neighborhood == 200
horizontal_Thres == 100

Subtract(a, b) == [p \in (DOMAIN a) \cap (DOMAIN b) |-> a[p] - b[p]]
Abs(a) == [p \in DOMAIN a |-> IF a[p] < 0 THEN 0 - a[p] ELSE a[p]]
Sqrt(a) == [p \in DOMAIN a |-> ISqrt(a[p])]

RECURSIVE SumOver(_, _)
SumOver(col, p) == IF col = <<>> THEN 0 ELSE Head(col)[p] + SumOver(Tail(col), p)

\* ImageCollection.mean(), over images valid at the same pixels.
CollectionMean(col) == [p \in DOMAIN col[1] |-> SumOver(col, p) \div Len(col)]

\* fastDistanceTransform, metric "squared_euclidean": the squared distance to
\* the nearest non-zero pixel of the input (a masked pixel is not one), with
\* values for the pixels of the grid within the neighborhood of one.
fastDistanceTransform(img, grid, neighborhood) ==
    LET nonZero == {q \in DOMAIN img : img[q] # 0}
        near(p) == {q \in nonZero : SqPixelDist(p, q) <= neighborhood * neighborhood}
    IN  [p \in {r \in grid : near(r) # {}} |-> SetMin({SqPixelDist(p, q) : q \in near(p)})]

\* Mutant: the thresholded distance kept unmasked, zeros included.
IdentifyFundNicheEdge_noSelfMask(dist) == lte(dist, horizontal_Thres)

\* Lines 161-163.
IdentifyFundNicheEdge(dist) == selfMask(lte(dist, horizontal_Thres))

\* Datasets: the K3 mask and the elevation of every pixel, and two annual
\* treeline elevations, the same at every pixel (their mean is whole).
InitNE ==
    /\ pcNE = "datasets"
    /\ k3Binary \in [NEPixels -> {0, 1}]
    /\ ALOSelv \in [NEPixels -> {1500, 2500}]
    /\ TLHreprj \in {<<[p \in NEPixels |-> t1], [p \in NEPixels |-> t2]>> :
                       t1 \in {1990, 2010}, t2 \in {1990, 2010}}
    /\ avgTLH = NoProps
    /\ extracted = NoProps
    /\ horizontal_Dist = NoProps
    /\ pcFE = "off"
    /\ fund_Niche_Edge = NoProps
    /\ CF_5yr = NoProps
    /\ local_Forest_Elv = NoProps
    /\ pcCL = "off"
    /\ broad_ATE = NoProps
    /\ landforms = NoProps
    /\ landCover = <<>>
    /\ medialAxis_PxCtds = <<>>
    /\ CF_nonRidges = NoProps
    /\ nonF_ridges = NoProps
    /\ CF_inAllYrs = NoProps
    /\ CF_nonF_elvCoords_Img = <<>>
    /\ combinedElvReducer = <<>>
    /\ elvMinMax_perBuffer = <<>>
    /\ transectCLs = <<>>

IdleNE ==
    /\ pcNE = "off"
    /\ k3Binary = NoProps
    /\ TLHreprj = <<>>
    /\ avgTLH = NoProps
    /\ extracted = NoProps
    /\ horizontal_Dist = NoProps

\* Lines 121-128.
AverageTLH_inK3 ==
    /\ pcNE = "datasets"
    /\ avgTLH' = updateMask(CollectionMean(TLHreprj), k3Binary)
    /\ pcNE' = "averaged"
    /\ UNCHANGED <<k3Binary, TLHreprj, extracted, horizontal_Dist>>
    /\ UNCHANGED <<clVars, selVars, feVars, maVars, tvVars, appVars, genVars, tjVars, evVars, biVars, baVars>>

\* Lines 136-143.
ExtractVerticallyClose ==
    /\ pcNE = "averaged"
    /\ LET absTLHdist == Abs(Subtract(avgTLH, ALOSelv))
       IN  extracted' = lte(absTLHdist, vertical_Thres)
    /\ pcNE' = "extracted"
    /\ UNCHANGED <<k3Binary, TLHreprj, avgTLH, horizontal_Dist>>
    /\ UNCHANGED <<clVars, selVars, feVars, maVars, tvVars, appVars, genVars, tjVars, evVars, biVars, baVars>>

\* Lines 145-156.
CalculateHorizontalDist ==
    /\ pcNE = "extracted"
    /\ horizontal_Dist' =
           Sqrt(fastDistanceTransform(extracted, NEPixels, horizontal_Neighborhood))
    /\ pcNE' = "distance"
    /\ UNCHANGED <<k3Binary, TLHreprj, avgTLH, extracted>>
    /\ UNCHANGED <<clVars, selVars, feVars, maVars, tvVars, appVars, genVars, tjVars, evVars, biVars, baVars>>

\* Lines 158-163.
IdentifyNicheEdge ==
    /\ pcNE = "distance"
    /\ fund_Niche_Edge' = IdentifyFundNicheEdge(horizontal_Dist)
    /\ pcNE' = "identified"
    /\ UNCHANGED <<k3Binary, TLHreprj, avgTLH, extracted, horizontal_Dist>>
    /\ UNCHANGED <<pcFE, CF_5yr, local_Forest_Elv>>
    /\ UNCHANGED <<clVars, selVars, maVars, tvVars, appVars, genVars, tjVars, evVars, biVars, baVars>>

NextNE ==
    \/ AverageTLH_inK3
    \/ ExtractVerticallyClose
    \/ CalculateHorizontalDist
    \/ IdentifyNicheEdge

----------------------------------------------------------------------------
(* Broad alpine treeline ecotone: the script of lines 256-426 of the       *)
(* Step 1.2.1 file, on the pixels of NEPixels.                             *)

\* Line 355.
neighborhood == 200
\* Line 367.
dist_Thres == 100

\* img.gte(other): 1 or 0 where both images are valid.
gteImage(img, other) ==
    [p \in (DOMAIN img) \cap (DOMAIN other) |-> IF img[p] >= other[p] THEN 1 ELSE 0]

\* img.mask(): 1 at the valid pixels of img and 0 at the others.
mask(img, grid) == [p \in grid |-> IF p \in DOMAIN img THEN 1 ELSE 0]

\* Mutant: the pixels below the regional forest elevation kept, as 0.
ExcludeInlandWater_noSelfMask(real, landSurface) == updateMask(real, landSurface)

\* Lines 380-382.
ExcludeInlandWater(real, landSurface) == selfMask(updateMask(real, landSurface))

\* Datasets (lines 308-331).  The niche edge covers every pixel or every
\* pixel but one; the local forest elevation is the elevation at some of
\* its pixels; the regional forest elevation is 1500 or 2000 everywhere, or
\* 2000 with the last pixel masked; the land is every pixel or every pixel
\* but one.
BroadATE_NicheEdgeInputs ==
    {[p \in S |-> 1] : S \in {NEPixels, NEPixels \ {<<100, 0>>}}}
BroadATE_ForestInputs == {{}, {<<0, 0>>}, {<<201, 0>>}, {<<0, 0>>, <<201, 0>>}}
BroadATE_RegionalElvInputs ==
    {[p \in NEPixels |-> 1500], [p \in NEPixels |-> 2000],
     [p \in NEPixels \ {<<301, 0>>} |-> 2000]}
BroadATE_LandInputs ==
    {[p \in NEPixels |-> IF p \in water THEN 0 ELSE 1] :
        water \in {{}, {<<0, 0>>}, {<<301, 0>>}}}

InitBA ==
    /\ pcBA = "datasets"
    /\ ALOSelv \in [NEPixels -> {1500, 2500}]
    /\ land \in BroadATE_LandInputs
    /\ fund_Niche_Edge \in BroadATE_NicheEdgeInputs
    /\ smoothed_Elv_10km \in BroadATE_RegionalElvInputs
    /\ \E forests \in BroadATE_ForestInputs :
          local_Forest_Elv = [p \in forests |-> ALOSelv[p]]
    /\ remaining_Fund_Niche_Edge = NoProps
    /\ forest_Buffer = NoProps
    /\ real_Niche_Edge = NoProps
    /\ pcFE = "off"
    /\ CF_5yr = NoProps
    /\ pcCL = "off"
    /\ broad_ATE = NoProps
    /\ landforms = NoProps
    /\ landCover = <<>>
    /\ medialAxis_PxCtds = <<>>
    /\ CF_nonRidges = NoProps
    /\ nonF_ridges = NoProps
    /\ CF_inAllYrs = NoProps
    /\ CF_nonF_elvCoords_Img = <<>>
    /\ combinedElvReducer = <<>>
    /\ elvMinMax_perBuffer = <<>>
    /\ transectCLs = <<>>

IdleBA ==
    /\ pcBA = "off"
    /\ land = NoProps
    /\ smoothed_Elv_10km = NoProps
    /\ remaining_Fund_Niche_Edge = NoProps
    /\ forest_Buffer = NoProps
    /\ real_Niche_Edge = NoProps

\* Lines 339-343.
ExcludeBelowRegionalElv ==
    /\ pcBA = "datasets"
    /\ LET fund_Niche_Edge_Elv == updateMask(ALOSelv, fund_Niche_Edge)
       IN  remaining_Fund_Niche_Edge' = gteImage(fund_Niche_Edge_Elv, smoothed_Elv_10km)
    /\ pcBA' = "remaining"
    /\ UNCHANGED <<land, smoothed_Elv_10km, forest_Buffer, real_Niche_Edge>>
    /\ UNCHANGED <<clVars, selVars, feVars, neVars, maVars, tvVars, appVars, genVars, tjVars, evVars, biVars>>

\* Lines 351-372.
IdentifyWithinForestBuffer ==
    /\ pcBA = "remaining"
    /\ LET local_Forests == mask(local_Forest_Elv, NEPixels)
           dist_To_Forests == Sqrt(fastDistanceTransform(local_Forests, NEPixels, neighborhood))
       IN  /\ forest_Buffer' = lte(dist_To_Forests, dist_Thres)
           /\ real_Niche_Edge' = updateMask(remaining_Fund_Niche_Edge, forest_Buffer')
    /\ pcBA' = "realized"
    /\ UNCHANGED <<land, smoothed_Elv_10km, remaining_Fund_Niche_Edge>>
    /\ UNCHANGED <<clVars, selVars, feVars, neVars, maVars, tvVars, appVars, genVars, tjVars, evVars, biVars>>

\* Lines 380-382.
ExcludeWater ==
    /\ pcBA = "realized"
    /\ broad_ATE' = ExcludeInlandWater(real_Niche_Edge, land)
    /\ pcBA' = "broadATE"
    /\ UNCHANGED <<land, smoothed_Elv_10km, remaining_Fund_Niche_Edge, forest_Buffer,
                   real_Niche_Edge>>
    /\ UNCHANGED <<pcCL, ALOSelv, landforms, landCover, medialAxis_PxCtds,
                   CF_nonRidges, nonF_ridges, CF_inAllYrs, CF_nonF_elvCoords_Img,
                   combinedElvReducer, elvMinMax_perBuffer, transectCLs>>
    /\ UNCHANGED <<selVars, feVars, neVars, maVars, tvVars, appVars, genVars, tjVars, evVars, biVars>>

NextBA ==
    \/ ExcludeBelowRegionalElv
    \/ IdentifyWithinForestBuffer
    \/ ExcludeWater

----------------------------------------------------------------------------
(* Medial axis between ridges and valleys: part_005.                         *)
(* The landforms are the same in every row of the grid, so that one row of   *)
(* NumColumns pixels describes the image; around it the landforms are masked.*)

NumColumns == 5
MAPixels == {<<x, 0>> : x \in 0..(NumColumns - 1)}
MAExtent == {<<x, 0>> : x \in (0 - 1)..NumColumns}
LandformClasses == {14, 15, 34, 41}
distParams_neighborhood == 1000

\* Lines 75-79.
extractValleyLandforms(lf) == gte(lf, 41)

\* ee.Kernel.laplacian8, not normalized, applied to an image with equal rows:
\* three neighbours on each side and the pixel itself (twice above and
\* below, once with the weight -8).
ConvolveLaplacian8(img) ==
    LET left(p) == <<p[1] - 1, p[2]>>
        right(p) == <<p[1] + 1, p[2]>>
    IN  [p \in {r \in DOMAIN img : left(r) \in DOMAIN img /\ right(r) \in DOMAIN img} |->
            3 * img[left(p)] + 3 * img[right(p)] + 2 * img[p] - 8 * img[p]]

\* Lines 82-108.
landformsDistance_Segmentation(lf) ==
    LET LF_dist == Sqrt(fastDistanceTransform(lf, MAExtent, distParams_neighborhood))
        edgy == ConvolveLaplacian8(LF_dist)
    IN  gte(edgy, 0)

\* Mutant: the segmentation of ridges or valleys is not negated.
DetermineMedialAxis_noNot(segR, segV, segRV) == And(And(segR, segV), segRV)

\* Lines 172-174.
DetermineMedialAxis(segR, segV, segRV) == And(And(segR, segV), Not(segRV))

\* Image.medialAxis(...).select("medial"): the squared distance to the nearest
\* non-zero pixel of the input, at every pixel or only at the zero-valued ones.
MedialBandOutcomes(img) ==
    LET sq == fastDistanceTransform(img, MAPixels, distParams_neighborhood)
    IN  {sq, [p \in {r \in DOMAIN sq : sq[r] # 0} |-> sq[p]]}

\* Lines 111-124.
extractMedialAxis_sqDist(medialBand, medialAxis_Mask, ATE_mask) ==
    updateMask(updateMask(medialBand, medialAxis_Mask), ATE_mask)

\* The broad ATE covers the row, or every second pixel of it, or is zero
\* on its first two pixels.
MA_ATEInputs ==
    { [p \in MAPixels |-> 1],
      [p \in {r \in MAPixels : r[1] % 2 = 0} |-> 1],
      [p \in MAPixels |-> IF p[1] < 2 THEN 0 ELSE 1] }

\* Datasets (lines 131-136): landforms with a ridge and a valley in the row.
InitMA ==
    /\ pcMA = "datasets"
    /\ LF_noInvaid \in {lf \in [MAPixels -> LandformClasses] :
                          /\ \E p \in MAPixels : lf[p] <= 14
                          /\ \E p \in MAPixels : lf[p] >= 41}
    /\ broad_ATE \in MA_ATEInputs
    /\ ridges = NoProps
    /\ valleys = NoProps
    /\ ridges_OR_valleys = NoProps
    /\ segmented_Ridges = NoProps
    /\ segmented_Valleys = NoProps
    /\ segmented_ridgesORvalleys = NoProps
    /\ medial_Axis = NoProps
    /\ sqDist_MedialAxis = NoProps
    /\ pcCL = "off"
    /\ ALOSelv = NoProps
    /\ landforms = NoProps
    /\ landCover = <<>>
    /\ medialAxis_PxCtds = <<>>
    /\ CF_nonRidges = NoProps
    /\ nonF_ridges = NoProps
    /\ CF_inAllYrs = NoProps
    /\ CF_nonF_elvCoords_Img = <<>>
    /\ combinedElvReducer = <<>>
    /\ elvMinMax_perBuffer = <<>>
    /\ transectCLs = <<>>

IdleMA ==
    /\ pcMA = "off"
    /\ LF_noInvaid = NoProps
    /\ ridges = NoProps
    /\ valleys = NoProps
    /\ ridges_OR_valleys = NoProps
    /\ segmented_Ridges = NoProps
    /\ segmented_Valleys = NoProps
    /\ segmented_ridgesORvalleys = NoProps
    /\ medial_Axis = NoProps
    /\ sqDist_MedialAxis = NoProps

\* Lines 144-150.
ExtractRidgesAndValleys ==
    /\ pcMA = "datasets"
    /\ ridges' = extractRidgeLandforms(LF_noInvaid)
    /\ valleys' = extractValleyLandforms(LF_noInvaid)
    /\ ridges_OR_valleys' = Or(ridges', valleys')
    /\ pcMA' = "landforms"
    /\ UNCHANGED <<LF_noInvaid, segmented_Ridges, segmented_Valleys,
                   segmented_ridgesORvalleys, medial_Axis, sqDist_MedialAxis>>
    /\ UNCHANGED <<clVars, selVars, feVars, neVars, tvVars, appVars, genVars, tjVars, evVars, biVars, baVars>>

\* Lines 158-165.
SegmentStudyDomain ==
    /\ pcMA = "landforms"
    /\ segmented_Ridges' = landformsDistance_Segmentation(ridges)
    /\ segmented_Valleys' = landformsDistance_Segmentation(valleys)
    /\ segmented_ridgesORvalleys' = landformsDistance_Segmentation(ridges_OR_valleys)
    /\ pcMA' = "segmented"
    /\ UNCHANGED <<LF_noInvaid, ridges, valleys, ridges_OR_valleys,
                   medial_Axis, sqDist_MedialAxis>>
    /\ UNCHANGED <<clVars, selVars, feVars, neVars, tvVars, appVars, genVars, tjVars, evVars, biVars, baVars>>

\* Lines 172-174, as a step of the script.
DetermineMedialAxisStep ==
    /\ pcMA = "segmented"
    /\ medial_Axis' = DetermineMedialAxis(segmented_Ridges, segmented_Valleys,
                                          segmented_ridgesORvalleys)
    /\ pcMA' = "medial"
    /\ UNCHANGED <<LF_noInvaid, ridges, valleys, ridges_OR_valleys, segmented_Ridges,
                   segmented_Valleys, segmented_ridgesORvalleys, sqDist_MedialAxis>>
    /\ UNCHANGED <<clVars, selVars, feVars, neVars, tvVars, appVars, genVars, tjVars, evVars, biVars, baVars>>

\* Lines 182-184.
DeriveSqDist_MedialAxis ==
    /\ pcMA = "medial"
    /\ \E medialBand \in MedialBandOutcomes(ridges_OR_valleys) :
          sqDist_MedialAxis' = extractMedialAxis_sqDist(medialBand, medial_Axis, broad_ATE)
    /\ pcMA' = "derived"
    /\ UNCHANGED <<LF_noInvaid, ridges, valleys, ridges_OR_valleys, segmented_Ridges,
                   segmented_Valleys, segmented_ridgesORvalleys, medial_Axis>>
    /\ UNCHANGED <<clVars, selVars, feVars, neVars, tvVars, appVars, genVars, tjVars, evVars, biVars, baVars>>

NextMA ==
    \/ ExtractRidgesAndValleys
    \/ SegmentStudyDomain
    \/ DetermineMedialAxisStep
    \/ DeriveSqDist_MedialAxis

----------------------------------------------------------------------------
(* Transect segment joining: Technical_Validation/Scripts/01.               *)
(* A table is a sequence of rows, a row a function of its column names; a   *)
(* column that is NA (or NaN) in a row is absent from the row's domain.     *)

groupName == "ratio"

AbsNum(x) == IF x < 0 THEN 0 - x ELSE x

\* dplyr select(all_of(columns)) with st_drop_geometry; an NA stays NA.
SelectColumns(df, columns) ==
    MapSeq(LAMBDA r : [c \in columns \cap DOMAIN r |-> r[c]], df)

\* tidyr drop_na over the columns of the table.
drop_na(df, columns) == SelectSeq(df, LAMBDA r : columns \subseteq DOMAIN r)

\* filter(Segment_ID == id) %>% select(-Segment_ID) %>% rename(...):
\* lines 142-150 and 173-181.
SegmentsOfType(df, id, elvCol, srcCol, valCol) ==
    LET renamed(r) ==
            [c \in {"ET_ID", groupName, elvCol} |->
                IF c = elvCol THEN r["avg_Elv"] ELSE r[c]]
            @@ (IF srcCol \in DOMAIN r THEN valCol :> r[srcCol] ELSE NoProps)
    IN  MapSeq(renamed, SelectSeq(df, LAMBDA r : r["Segment_ID"] = id))

\* merge(x, y, by = c("ET_ID", groupName), all = FALSE): lines 153-158.
MergeSegments(x, y) ==
    LET matches(rx) ==
            SelectSeq(y, LAMBDA ry : /\ ry["ET_ID"] = rx["ET_ID"]
                                     /\ ry[groupName] = rx[groupName])
        joined(rx) == MapSeq(LAMBDA ry : rx @@ ry, matches(rx))
    IN  Flatten(MapSeq(joined, x))

\* Sections 3 and 4: the two types of segments joined, rows with NAs removed.
JoinSegments(df, srcCol, val1, val2) ==
    drop_na(MergeSegments(SegmentsOfType(df, 1, "Elv_1", srcCol, val1),
                          SegmentsOfType(df, 2, "Elv_2", srcCol, val2)),
            {"ET_ID", groupName, "Elv_1", "Elv_2", val1, val2})

\* Mutant: the difference of the two segments without the sign of the
\* elevation difference.
SegmentDifference_unsigned(r, val1, val2, diffCol) ==
    LET Elv_Diff == r["Elv_1"] - r["Elv_2"]
    IN  [c \in {"ET_ID", groupName} |-> r[c]]
        @@ (IF Elv_Diff = 0 THEN NoProps ELSE diffCol :> (r[val1] - r[val2]))

\* mutate(...) %>% select(...), lines 205-211 and 216-222; Elv_Diff / abs(Elv_Diff)
\* is 1 or -1, and NaN for an elevation difference of zero.
SegmentDifference(r, val1, val2, diffCol) ==
    LET Elv_Diff == r["Elv_1"] - r["Elv_2"]
    IN  [c \in {"ET_ID", groupName} |-> r[c]]
        @@ (IF Elv_Diff = 0
            THEN NoProps
            ELSE LET Diff_Sign == Elv_Diff \div AbsNum(Elv_Diff)
                 IN  diffCol :> ((r[val1] - r[val2]) * Diff_Sign))

\* Mutant: the rows with an undefined difference are kept.
DifferenceOfSegments_keepNA(df, val1, val2, diffCol) ==
    MapSeq(LAMBDA r : SegmentDifference(r, val1, val2, diffCol), df)

\* Section 5, with the removal of the NAs caused by "Elv_Diff == 0".
DifferenceOfSegments(df, val1, val2, diffCol) ==
    drop_na(MapSeq(LAMBDA r : SegmentDifference(r, val1, val2, diffCol), df),
            {"ET_ID", groupName, diffCol})

\* The segments of one transect: two segment pairs, two segments each.
SegmentSlots ==
    << [ET_ID |-> 1, ratio |-> 1, Segment_ID |-> 1],
       [ET_ID |-> 1, ratio |-> 1, Segment_ID |-> 2],
       [ET_ID |-> 1, ratio |-> 2, Segment_ID |-> 1],
       [ET_ID |-> 1, ratio |-> 2, Segment_ID |-> 2] >>

\* A segment is missing from the files, or has an average elevation and
\* an average NDVI and canopy height, either of which may be NA.
SegmentInputs ==
    {[present |-> FALSE, avg_Elv |-> 1, vals |-> NoProps]}
    \cup {[present |-> TRUE, avg_Elv |-> e, vals |-> v] :
            e \in {1, 2},
            v \in { ("avg_NDVI" :> 0) @@ ("avg_VCH" :> 7),
                    ("avg_NDVI" :> 3) @@ ("avg_VCH" :> 5),
                    ("avg_VCH" :> 5),
                    ("avg_NDVI" :> 3) }}

SegmentsTable(choice, valCol) ==
    LET row(i) == SegmentSlots[i] @@ ("avg_Elv" :> choice[i].avg_Elv)
                  @@ ("geometry" :> i)
                  @@ [c \in {valCol} \cap DOMAIN choice[i].vals |-> choice[i].vals[c]]
        present == SelectSeq([i \in DOMAIN SegmentSlots |-> i],
                             LAMBDA i : choice[i].present)
    IN  MapSeq(row, present)

\* Section 1: the two files loaded.
InitTV ==
    /\ pcTV = "loaded"
    /\ \E choice \in [DOMAIN SegmentSlots -> SegmentInputs] :
          /\ NDVIsegments_SHP = SegmentsTable(choice, "avg_NDVI")
          /\ VCHsegments_SHP = SegmentsTable(choice, "avg_VCH")
    /\ NDVIsegments_DF = <<>>
    /\ VCHsegments_DF = <<>>

IdleTV ==
    /\ pcTV = "off"
    /\ NDVIsegments_SHP = <<>>
    /\ VCHsegments_SHP = <<>>
    /\ NDVIsegments_DF = <<>>
    /\ VCHsegments_DF = <<>>

\* Section 2, lines 113-138.
DataPreprocessing ==
    /\ pcTV = "loaded"
    /\ NDVIsegments_DF' = SelectColumns(NDVIsegments_SHP,
           {"ET_ID", "Segment_ID", "avg_Elv", "avg_NDVI", groupName})
    /\ VCHsegments_DF' = SelectColumns(VCHsegments_SHP,
           {"ET_ID", "Segment_ID", "avg_Elv", "avg_VCH", groupName})
    /\ pcTV' = "preprocessed"
    /\ UNCHANGED <<NDVIsegments_SHP, VCHsegments_SHP>>
    /\ UNCHANGED <<clVars, selVars, feVars, neVars, maVars, appVars, genVars, tjVars, evVars, biVars, baVars>>

\* Section 3, lines 141-168.
NDVIsegmentJoining ==
    /\ pcTV = "preprocessed"
    /\ NDVIsegments_DF' = JoinSegments(NDVIsegments_DF, "avg_NDVI", "NDVI_1", "NDVI_2")
    /\ pcTV' = "joinedNDVI"
    /\ UNCHANGED <<NDVIsegments_SHP, VCHsegments_SHP, VCHsegments_DF>>
    /\ UNCHANGED <<clVars, selVars, feVars, neVars, maVars, appVars, genVars, tjVars, evVars, biVars, baVars>>

\* Section 4, lines 172-199.
VCHsegmentJoining ==
    /\ pcTV = "joinedNDVI"
    /\ VCHsegments_DF' = JoinSegments(VCHsegments_DF, "avg_VCH", "VCH_1", "VCH_2")
    /\ pcTV' = "joined"
    /\ UNCHANGED <<NDVIsegments_SHP, VCHsegments_SHP, NDVIsegments_DF>>
    /\ UNCHANGED <<clVars, selVars, feVars, neVars, maVars, appVars, genVars, tjVars, evVars, biVars, baVars>>

\* Section 5, lines 202-235.
DifferenceCalculation ==
    /\ pcTV = "joined"
    /\ NDVIsegments_DF' = DifferenceOfSegments(NDVIsegments_DF, "NDVI_1", "NDVI_2", "NDVI_diff")
    /\ VCHsegments_DF' = DifferenceOfSegments(VCHsegments_DF, "VCH_1", "VCH_2", "VCH_diff")
    /\ pcTV' = "differenced"
    /\ UNCHANGED <<NDVIsegments_SHP, VCHsegments_SHP>>
    /\ UNCHANGED <<clVars, selVars, feVars, neVars, maVars, appVars, genVars, tjVars, evVars, biVars, baVars>>

NextTV ==
    \/ DataPreprocessing
    \/ NDVIsegmentJoining
    \/ VCHsegmentJoining
    \/ DifferenceCalculation

\* The extension branch of the setup, lines 38 and 40.
NDVI_rawDiff_VarName == "NDVI_1"

VCH_rawDiff_VarName == "VCH_1"

\* tidyr spread(key = groupName, value = valueCol): one row per transect and
\* one column per value of the key found in the table, named by the value;
\* NA where the transect has no row with that value.  Lines 242-254.
spread(df, valueCol) ==
    LET ids == Distinct(MapSeq(LAMBDA r : r["ET_ID"], df))
        rowsOf(id) == {r \in Range(df) : r["ET_ID"] = id}
        wide(id) ==
            ("ET_ID" :> id)
            @@ [c \in {ToString(r[groupName]) : r \in rowsOf(id)} |->
                   (CHOOSE r \in rowsOf(id) : ToString(r[groupName]) = c)[valueCol]]
    IN  MapSeq(wide, ids)

SpreadColumns(df) == {"ET_ID"} \cup {ToString(r[groupName]) : r \in Range(df)}

\* spread(...) %>% drop_na(): "Remove the transects with missing ... difference
\* in any segment pairs."
SpreadSegments(df, valueCol) == drop_na(spread(df, valueCol), SpreadColumns(df))

\* rename_with(.fn = ~ str_c(prefix, .), .cols = -ET_ID): lines 257-267.
rename_with(df, prefix) ==
    LET renamed(r) ==
            ("ET_ID" :> r["ET_ID"])
            @@ [c \in {prefix \o c0 : c0 \in (DOMAIN r) \ {"ET_ID"}} |->
                   r[CHOOSE c0 \in (DOMAIN r) \ {"ET_ID"} : prefix \o c0 = c]]
    IN  MapSeq(renamed, df)

\* mutate(rawDiff = upper - lower) %>% select(ET_ID, rawDiff) %>% drop_na()
\* %>% rename_at(...): lines 271-279 and 295-303; the geometry stays.
RawDifference(shp, upper, lower, varName) ==
    LET diff(r) ==
            [c \in {"ET_ID", "geometry"} |-> r[c]]
            @@ (IF upper \in DOMAIN r /\ lower \in DOMAIN r
                THEN varName :> (r[upper] - r[lower]) ELSE NoProps)
    IN  drop_na(MapSeq(diff, shp), {"ET_ID", "geometry", varName})

\* merge(x, y, by = c("ET_ID"), all = FALSE): lines 284-289, 308-313, 319-324.
MergeTransects(x, y) ==
    LET matches(rx) == SelectSeq(y, LAMBDA ry : ry["ET_ID"] = rx["ET_ID"])
        joined(rx) == MapSeq(LAMBDA ry : rx @@ ry, matches(rx))
    IN  Flatten(MapSeq(joined, x))

st_drop_geometry(df) ==
    MapSeq(LAMBDA r : [c \in (DOMAIN r) \ {"geometry"} |-> r[c]], df)

\* The segments of two sampled transects: two ratios, two segments each.
SampledSegmentSlots ==
    << [ET_ID |-> 1, ratio |-> 2, Segment_ID |-> 1],
       [ET_ID |-> 1, ratio |-> 2, Segment_ID |-> 2],
       [ET_ID |-> 1, ratio |-> 3, Segment_ID |-> 1],
       [ET_ID |-> 1, ratio |-> 3, Segment_ID |-> 2],
       [ET_ID |-> 2, ratio |-> 2, Segment_ID |-> 1],
       [ET_ID |-> 2, ratio |-> 2, Segment_ID |-> 2],
       [ET_ID |-> 2, ratio |-> 3, Segment_ID |-> 1],
       [ET_ID |-> 2, ratio |-> 3, Segment_ID |-> 2] >>

\* The second segment of a pair is good, lacks a value, lies at the
\* elevation of the first, or is missing from the files.
SecondSegmentInputs ==
    LET good == ("avg_NDVI" :> 3) @@ ("avg_VCH" :> 5)
    IN  {s \in SegmentInputs :
            \/ ~s.present
            \/ s.avg_Elv = 2 /\ s.vals \in {good, ("avg_VCH" :> 5), ("avg_NDVI" :> 3)}
            \/ s.avg_Elv = 1 /\ s.vals = good}

FirstSegmentInput ==
    [present |-> TRUE, avg_Elv |-> 1,
     vals |-> ("avg_NDVI" :> 0) @@ ("avg_VCH" :> 7)]

SampledSegmentsTable(choice, valCol) ==
    LET input(i) == IF SampledSegmentSlots[i].Segment_ID = 1
                    THEN FirstSegmentInput ELSE choice[i]
        row(i) == SampledSegmentSlots[i] @@ ("avg_Elv" :> input(i).avg_Elv)
                  @@ ("geometry" :> i)
                  @@ [c \in {valCol} \cap DOMAIN input(i).vals |-> input(i).vals[c]]
        present == SelectSeq([i \in DOMAIN SampledSegmentSlots |-> i],
                             LAMBDA i : input(i).present)
    IN  MapSeq(row, present)

\* A sampled transect with the values of its lower and upper segments,
\* either pair of which may lack a value.
SampledInputs ==
    { ("L_NDVI" :> 8) @@ ("U_NDVI" :> 5) @@ ("L_CanopyHt" :> 9) @@ ("U_CanopyHt" :> 2),
      ("L_NDVI" :> 8) @@ ("L_CanopyHt" :> 9) @@ ("U_CanopyHt" :> 2),
      ("L_NDVI" :> 8) @@ ("U_NDVI" :> 5) @@ ("U_CanopyHt" :> 2) }

SampledTable(choice) ==
    [id \in DOMAIN choice |-> ("ET_ID" :> id) @@ ("geometry" :> id) @@ choice[id]]

\* Section 1 with the sampled transects.
InitTJ ==
    /\ pcTV = "loaded"
    /\ \E choice \in [{i \in DOMAIN SampledSegmentSlots :
                          SampledSegmentSlots[i].Segment_ID = 2} -> SecondSegmentInputs] :
          /\ NDVIsegments_SHP = SampledSegmentsTable(choice, "avg_NDVI")
          /\ VCHsegments_SHP = SampledSegmentsTable(choice, "avg_VCH")
    /\ NDVIsegments_DF = <<>>
    /\ VCHsegments_DF = <<>>
    /\ \E choice \in [{slot.ET_ID : slot \in Range(SampledSegmentSlots)} -> SampledInputs] :
          sampled_SHP = SampledTable(choice)
    /\ NDVIsegments_Spreaded = <<>>
    /\ VCHsegments_Spreaded = <<>>
    /\ transects_NDVIdiff = <<>>
    /\ transects_VCHdiff = <<>>
    /\ transects_TwoDiff = <<>>

IdleTJ ==
    /\ sampled_SHP = <<>>
    /\ NDVIsegments_Spreaded = <<>>
    /\ VCHsegments_Spreaded = <<>>
    /\ transects_NDVIdiff = <<>>
    /\ transects_VCHdiff = <<>>
    /\ transects_TwoDiff = <<>>

\* Section 6, lines 240-254: the transects with a missing difference removed.
SpreadingSegments ==
    /\ pcTV = "differenced"
    /\ NDVIsegments_Spreaded' = SpreadSegments(NDVIsegments_DF, "NDVI_diff")
    /\ VCHsegments_Spreaded' = SpreadSegments(VCHsegments_DF, "VCH_diff")
    /\ pcTV' = "spreaded"
    /\ UNCHANGED <<NDVIsegments_SHP, VCHsegments_SHP, NDVIsegments_DF, VCHsegments_DF>>
    /\ UNCHANGED <<sampled_SHP, transects_NDVIdiff, transects_VCHdiff, transects_TwoDiff>>
    /\ UNCHANGED <<clVars, selVars, feVars, neVars, maVars, appVars, genVars, evVars, biVars, baVars>>

\* Lines 257-313: the segment variables joined with the sampled transects.
JoiningTransects ==
    /\ pcTV = "spreaded"
    /\ transects_NDVIdiff' =
           MergeTransects(RawDifference(sampled_SHP, "U_NDVI", "L_NDVI",
                                        NDVI_rawDiff_VarName),
                          rename_with(NDVIsegments_Spreaded, "NDVI_"))
    /\ transects_VCHdiff' =
           MergeTransects(RawDifference(sampled_SHP, "U_CanopyHt", "L_CanopyHt",
                                        VCH_rawDiff_VarName),
                          rename_with(VCHsegments_Spreaded, "VCH_"))
    /\ pcTV' = "joinedTransects"
    /\ UNCHANGED <<NDVIsegments_SHP, VCHsegments_SHP, NDVIsegments_DF, VCHsegments_DF>>
    /\ UNCHANGED <<sampled_SHP, NDVIsegments_Spreaded, VCHsegments_Spreaded,
                   transects_TwoDiff>>
    /\ UNCHANGED <<clVars, selVars, feVars, neVars, maVars, appVars, genVars, evVars, biVars, baVars>>

\* Lines 318-324: the NDVI and VCH differences combined.
CombiningDifferences ==
    /\ pcTV = "joinedTransects"
    /\ transects_TwoDiff' =
           MergeTransects(transects_NDVIdiff, st_drop_geometry(transects_VCHdiff))
    /\ pcTV' = "combined"
    /\ UNCHANGED <<NDVIsegments_SHP, VCHsegments_SHP, NDVIsegments_DF, VCHsegments_DF>>
    /\ UNCHANGED <<sampled_SHP, NDVIsegments_Spreaded, VCHsegments_Spreaded,
                   transects_NDVIdiff, transects_VCHdiff>>
    /\ UNCHANGED <<clVars, selVars, feVars, neVars, maVars, appVars, genVars, evVars, biVars, baVars>>

NextTJ ==
    \/ NextTV
    \/ SpreadingSegments
    \/ JoiningTransects
    \/ CombiningDifferences

----------------------------------------------------------------------------
(* Visualization app: the script of README.md.                               *)
(* Longitudes are metres along one line; every transect spans all latitudes. *)
(* A value that is undefined in the script is absent from its record.        *)

CanopyHeightDifference == "Canopy Height Difference (m)"
NDVIDifference == "NDVI Difference"

\* m.diffTypes, lines 110-160; the visualization limits in tenths.
diffTypes ==
    (CanopyHeightDifference :>
        [gmba |-> [data |-> "gmbaVCH", varName |-> "Avg_CHdiff"],
         hybas |-> [data |-> "hybasVCH", varName |-> "Avg_CHdiff"],
         ATET |-> [data |-> "ATETs", varName |-> "CHdiff"],
         varName |-> "canopy height (m)", suffix |-> "CanopyHt",
         color |-> "#08306b", vis |-> [min |-> 0, max |-> 0 - 120]])
    @@ (NDVIDifference :>
        [gmba |-> [data |-> "gmbaNDVI", varName |-> "Avg_VIdiff"],
         hybas |-> [data |-> "hybasNDVI", varName |-> "Avg_VIdiff"],
         ATET |-> [data |-> "ATETs", varName |-> "NDVIdiff"],
         varName |-> "NDVI", suffix |-> "NDVI",
         color |-> "#00441b", vis |-> [min |-> 0, max |-> 0 - 3]])

\* m.FtrCols.ATETs, lines 51-67: two transects 50 m apart, the first in the
\* collection the farther from a click between them at longitude 140.
ATETs ==
    << [geom |-> [lo |-> 0, hi |-> 100],
        props |-> [ET_ID |-> 1, Elv_Range |-> 2004, H_Length |-> 5006, Avg_Slope |-> 215,
                   GMBA_Regn |-> "North America", GMBA_Name |-> "Olympic Mountains",
                   LEnd_Elv |-> 1000, UEnd_Elv |-> 1200,
                   L_CanopyHt |-> 9, U_CanopyHt |-> 2, L_NDVI |-> 8, U_NDVI |-> 5]],
       [geom |-> [lo |-> 150, hi |-> 250],
        props |-> [ET_ID |-> 2, Elv_Range |-> 3015, H_Length |-> 9994, Avg_Slope |-> 304,
                   GMBA_Regn |-> "North America", GMBA_Name |-> "Olympic Mountains",
                   LEnd_Elv |-> 1100, UEnd_Elv |-> 1400,
                   L_CanopyHt |-> 7, U_CanopyHt |-> 1, L_NDVI |-> 6, U_NDVI |-> 3]] >>

ClickLons == {0, 50, 140, 240, 1000}
ClickLats == {45, 46}
ClickCoords == {("lon" :> x) @@ ("lat" :> y) : x \in ClickLons, y \in ClickLats}

\* ee.Number.round of a value held in tenths.
RoundTenths(x) == (x + 5) \div 10

\* c.map.layers().set(index, layer), the index counted from 0.
layersSet(c0, index, layer) ==
    [c0 EXCEPT !.layers =
        IF index < Len(@) THEN [@ EXCEPT ![index + 1] = layer] ELSE Append(@, layer)]

\* ui.Map.Layer(m.emptyImg.paint(...), vis, name).setShown(checked)
differenceLayer(differenceType, level, levelName, checked) ==
    [eeObject |-> [paint |-> diffTypes[differenceType][level].data,
                   color |-> diffTypes[differenceType][level].varName],
     visParams |-> diffTypes[differenceType].vis,
     name |-> <<differenceType, levelName>>,
     shown |-> checked]

\* Lines 806-819.
updateTransectDisplay(c0) ==
    layersSet(c0, 3, [eeObject |-> [collection |-> "ATETs"], visParams |-> [color |-> "ff0000"],
                      name |-> "Global ATETs", shown |-> c0.transectCheckbox])

\* Lines 844-857.
updateCentroidDisplay(c0) ==
    layersSet(c0, 4, [eeObject |-> [collection |-> "ATECs"], visParams |-> [color |-> "00ffff"],
                      name |-> "Global ATECs", shown |-> c0.centroidCheckbox])

\* Lines 860-891.
updateMountainDifference(c0) ==
    layersSet(c0, 0, differenceLayer(c0.diffSelector, "gmba", "mountain level", c0.mountain))

\* Lines 894-925.
updateWatershedDifference(c0) ==
    layersSet(c0, 1, differenceLayer(c0.diffSelector, "hybas", "watershed level", c0.watershed))

\* Mutant: the transect-level layer painted from the watershed entry.
updateTransectDifference_hybas(c0) ==
    layersSet(c0, 2, differenceLayer(c0.diffSelector, "hybas", "transect level", c0.transect))

\* Lines 928-959.
updateTransectDifference(c0) ==
    layersSet(c0, 2, differenceLayer(c0.diffSelector, "ATET", "transect level", c0.transect))

\* Lines 986-1011.
updateLegend(c0) ==
    [c0 EXCEPT !.legend = [title |-> c0.diffSelector,
                           leftLabel |-> diffTypes[c0.diffSelector].vis.max,
                           rightLabel |-> diffTypes[c0.diffSelector].vis.min]]

\* A checkbox's setValue runs its onChange callbacks, in the order of their
\* registration (lines 1158-1161 and 1191-1194), when the value changes.
RECURSIVE setTransectCheckbox(_, _), setTransectLevelCheckbox(_, _)

\* Mutant: the difference checkbox is checked with the raw transect checkbox.
transectDiffCheckboxValue_checked(c0) ==
    IF c0.transectCheckbox THEN TRUE ELSE c0.transect

\* ee.Algorithms.If({condition: transectChecked, trueCase: false,
\* falseCase: originalState}), lines 836-840.
transectDiffCheckboxValue(c0) ==
    IF c0.transectCheckbox THEN FALSE ELSE c0.transect

\* Mutant: the raw transect checkbox keeps its state.
rawTransectCheckboxValue_kept(c0) ==
    c0.transectCheckbox

\* ee.Algorithms.If({condition: differenceChecked, trueCase: false,
\* falseCase: originalState}), lines 977-981.
rawTransectCheckboxValue(c0) ==
    IF c0.transect THEN FALSE ELSE c0.transectCheckbox

\* Lines 823-841.
updateTransectDiffCheckbox(c0) ==
    setTransectLevelCheckbox(c0, transectDiffCheckboxValue(c0))

\* Lines 963-982.
updateRawTransectCheckbox(c0) ==
    setTransectCheckbox(c0, rawTransectCheckboxValue(c0))

setTransectCheckbox(c0, value) ==
    IF c0.transectCheckbox = value THEN c0
    ELSE updateTransectDiffCheckbox(
             updateTransectDisplay([c0 EXCEPT !.transectCheckbox = value]))

setTransectLevelCheckbox(c0, value) ==
    IF c0.transect = value THEN c0
    ELSE updateRawTransectCheckbox(
             updateTransectDifference([c0 EXCEPT !.transect = value]))

\* Lines 790-803, for the mountain selected when the app is loaded.
zoomInMountain(c0) ==
    LET selectedATETs ==
            SelectSeq(ATETs, LAMBDA t : t.props.GMBA_Name = c0.mountainSelector)
    IN  [c0 EXCEPT !.mapCenter = selectedATETs[1].props.ET_ID]

\* Mutant: the transects within 90 m in the reverse order of the collection.
filterBoundsATETs_reversed(lon) ==
    LET hits == SelectSeq(ATETs, LAMBDA t : t.geom.lo <= lon + 90 /\ lon - 90 <= t.geom.hi)
    IN  [i \in DOMAIN hits |-> hits[Len(hits) + 1 - i]]

\* Mutant: the clicked point is buffered by 900 m.
filterBoundsATETs_wide(lon) ==
    SelectSeq(ATETs, LAMBDA t : t.geom.lo <= lon + 900 /\ lon - 900 <= t.geom.hi)

\* point.buffer(90) and ATETs.filterBounds(point), lines 1021-1024.
filterBoundsATETs(lon) ==
    SelectSeq(ATETs, LAMBDA t : t.geom.lo <= lon + 90 /\ lon - 90 <= t.geom.hi)

\* Mutant: the chart always plots the canopy height.
inspectorChart_CanopyHt(clickedTransect, differenceType) ==
    [x |-> <<clickedTransect.props.LEnd_Elv, clickedTransect.props.UEnd_Elv>>,
     y |-> <<clickedTransect.props["L_CanopyHt"], clickedTransect.props["U_CanopyHt"]>>,
     color |-> diffTypes[differenceType].color,
     vAxis |-> diffTypes[differenceType].varName]

\* Lines 1073-1126.
inspectorChart(clickedTransect, differenceType) ==
    LET suffix == diffTypes[differenceType].suffix
    IN  [x |-> <<clickedTransect.props.LEnd_Elv, clickedTransect.props.UEnd_Elv>>,
         y |-> <<clickedTransect.props[IF suffix = "NDVI" THEN "L_NDVI" ELSE "L_CanopyHt"],
                 clickedTransect.props[IF suffix = "NDVI" THEN "U_NDVI" ELSE "U_CanopyHt"]>>,
         color |-> diffTypes[differenceType].color,
         vAxis |-> diffTypes[differenceType].varName]

\* Lines 1019-1128: what inspectTransect does past its first guard.
lookupTransect(c0, coords) ==
    LET clicked == filterBoundsATETs(coords["lon"])
    IN  IF Len(clicked) = 0 THEN c0
        ELSE LET clickedTransect == clicked[1]
                 c1 == [c0 EXCEPT !.inspectorPanel_shown = TRUE,
                                  !.inspectorContainer_shown =
                                      IF c0.shownButton = "Show information" THEN TRUE ELSE @,
                                  !.shownButton =
                                      IF @ = "Show information" THEN "Hide information" ELSE @]
                 c2 == layersSet(c1, 5,
                           [eeObject |-> [point |-> coords, buffer |-> 90],
                            visParams |-> [color |-> "ffff00"],
                            name |-> "Clicked point", shown |-> TRUE])
             IN  [c2 EXCEPT
                    !.inspectorValues =
                        [ID |-> clickedTransect.props.ET_ID,
                         range |-> RoundTenths(clickedTransect.props.Elv_Range),
                         length |-> RoundTenths(clickedTransect.props.H_Length),
                         slope |-> RoundTenths(clickedTransect.props.Avg_Slope),
                         region |-> clickedTransect.props.GMBA_Regn,
                         mountain |-> clickedTransect.props.GMBA_Name],
                    !.chartPanel = <<inspectorChart(clickedTransect, c0.diffSelector)>>]

\* Lines 1014-1129; `!coords.lon` is true of an undefined longitude and of
\* the longitude 0.
inspectTransect(c0, coords) ==
    IF "lon" \notin DOMAIN coords \/ coords["lon"] = 0 THEN c0
    ELSE lookupTransect(c0, coords)

\* Lines 1132-1142.
showHideChart(c0) ==
    IF c0.shownButton = "Hide information"
    THEN [c0 EXCEPT !.inspectorContainer_shown = FALSE, !.shownButton = "Show information"]
    ELSE [c0 EXCEPT !.inspectorContainer_shown = TRUE, !.shownButton = "Hide information"]

\* Mutant: only the longitude is written.
updateUrlParamClick_lonOnly(u, newClickParams) ==
    ("click_lon" :> newClickParams["lon"]) @@ u

\* Lines 1146-1149.
updateUrlParamClick(u, newClickParams) ==
    ("click_lon" :> newClickParams["lon"]) @@ ("click_lat" :> newClickParams["lat"]) @@ u

\* {lon: ui.url.get('click_lon'), lat: ui.url.get('click_lat')}
urlClickCoords(u) ==
    [k \in {n \in {"lon", "lat"} : (IF n = "lon" THEN "click_lon" ELSE "click_lat") \in DOMAIN u} |->
        u[IF k = "lon" THEN "click_lon" ELSE "click_lat"]]

\* The last onChange callback of the difference selector, lines 1174-1184.
refreshInspector(c0, u) ==
    IF c0.shownButton = "Hide information" THEN inspectTransect(c0, urlClickCoords(u)) ELSE c0

\* The components as composed (lines 167-534, 728-732): the page is opened
\* without click parameters or with the parameters of a shared click.
InitApp ==
    /\ pcApp = "composed"
    /\ components =
          [regionSelector |-> "North America", mountainSelector |-> "Olympic Mountains",
           transectCheckbox |-> TRUE, centroidCheckbox |-> FALSE,
           diffSelector |-> CanopyHeightDifference,
           mountain |-> FALSE, watershed |-> TRUE, transect |-> FALSE,
           legend |-> NoProps,
           shownButton |-> "Hide information",
           inspectorPanel_shown |-> FALSE, inspectorContainer_shown |-> TRUE,
           inspectorValues |-> NoProps, chartPanel |-> <<>>,
           layers |-> <<>>, mapCenter |-> 0]
    /\ url \in {NoProps} \cup {updateUrlParamClick(NoProps, coords) : coords \in ClickCoords}

IdleApp ==
    /\ pcApp = "off"
    /\ components = NoProps
    /\ url = NoProps

\* Mutant: the raw datasets are displayed before the vegetation differences.
Initialize_datasetsFirst ==
    /\ pcApp = "composed"
    /\ LET c1 == updateCentroidDisplay(updateTransectDiffCheckbox(updateTransectDisplay(components)))
           c2 == updateLegend(updateRawTransectCheckbox(updateTransectDifference(
                     updateWatershedDifference(updateMountainDifference(c1)))))
       IN  components' = inspectTransect(zoomInMountain(c2), urlClickCoords(url))
    /\ pcApp' = "running"
    /\ UNCHANGED url
    /\ UNCHANGED <<clVars, selVars, feVars, neVars, maVars, tvVars, genVars, tjVars, evVars, biVars, baVars>>

\* Lines 1206-1226.
Initialize ==
    /\ pcApp = "composed"
    /\ LET c1 == updateLegend(updateRawTransectCheckbox(updateTransectDifference(
                     updateWatershedDifference(updateMountainDifference(components)))))
           c2 == updateCentroidDisplay(updateTransectDiffCheckbox(updateTransectDisplay(c1)))
       IN  components' = inspectTransect(zoomInMountain(c2), urlClickCoords(url))
    /\ pcApp' = "running"
    /\ UNCHANGED url
    /\ UNCHANGED <<clVars, selVars, feVars, neVars, maVars, tvVars, genVars, tjVars, evVars, biVars, baVars>>

\* The user selects the other difference type: lines 1166-1184.
ChangeDifference ==
    /\ pcApp = "running"
    /\ \E value \in (DOMAIN diffTypes) \ {components.diffSelector} :
          LET c1 == [components EXCEPT !.diffSelector = value]
              c2 == updateLegend(updateTransectDifference(
                        updateWatershedDifference(updateMountainDifference(c1))))
          IN  components' = refreshInspector(c2, url)
    /\ UNCHANGED <<pcApp, url>>
    /\ UNCHANGED <<clVars, selVars, feVars, neVars, maVars, tvVars, genVars, tjVars, evVars, biVars, baVars>>

\* The user toggles a checkbox: lines 1158-1163 and 1187-1194.
ToggleTransectCheckbox ==
    /\ pcApp = "running"
    /\ components' = setTransectCheckbox(components, ~components.transectCheckbox)
    /\ UNCHANGED <<pcApp, url>>
    /\ UNCHANGED <<clVars, selVars, feVars, neVars, maVars, tvVars, genVars, tjVars, evVars, biVars, baVars>>

ToggleCentroidCheckbox ==
    /\ pcApp = "running"
    /\ components' = updateCentroidDisplay([components EXCEPT !.centroidCheckbox = ~@])
    /\ UNCHANGED <<pcApp, url>>
    /\ UNCHANGED <<clVars, selVars, feVars, neVars, maVars, tvVars, genVars, tjVars, evVars, biVars, baVars>>

ToggleMountainLevel ==
    /\ pcApp = "running"
    /\ components' = updateMountainDifference([components EXCEPT !.mountain = ~@])
    /\ UNCHANGED <<pcApp, url>>
    /\ UNCHANGED <<clVars, selVars, feVars, neVars, maVars, tvVars, genVars, tjVars, evVars, biVars, baVars>>

ToggleWatershedLevel ==
    /\ pcApp = "running"
    /\ components' = updateWatershedDifference([components EXCEPT !.watershed = ~@])
    /\ UNCHANGED <<pcApp, url>>
    /\ UNCHANGED <<clVars, selVars, feVars, neVars, maVars, tvVars, genVars, tjVars, evVars, biVars, baVars>>

ToggleTransectLevel ==
    /\ pcApp = "running"
    /\ components' = setTransectLevelCheckbox(components, ~components.transect)
    /\ UNCHANGED <<pcApp, url>>
    /\ UNCHANGED <<clVars, selVars, feVars, neVars, maVars, tvVars, genVars, tjVars, evVars, biVars, baVars>>

\* A click on the map: lines 1197-1198, the two callbacks in their order.
ClickMapAt(coords) ==
    /\ pcApp = "running"
    /\ components' = inspectTransect(components, coords)
    /\ url' = updateUrlParamClick(url, coords)
    /\ UNCHANGED pcApp
    /\ UNCHANGED <<clVars, selVars, feVars, neVars, maVars, tvVars, genVars, tjVars, evVars, biVars, baVars>>

ClickMap == \E coords \in ClickCoords : ClickMapAt(coords)

\* A click on the inspector button: line 1199.
ClickShownButton ==
    /\ pcApp = "running"
    /\ components' = showHideChart(components)
    /\ UNCHANGED <<pcApp, url>>
    /\ UNCHANGED <<clVars, selVars, feVars, neVars, maVars, tvVars, genVars, tjVars, evVars, biVars, baVars>>

NextApp ==
    \/ Initialize
    \/ ChangeDifference
    \/ ToggleTransectCheckbox
    \/ ToggleCentroidCheckbox
    \/ ToggleMountainLevel
    \/ ToggleWatershedLevel
    \/ ToggleTransectLevel
    \/ ClickMap
    \/ ClickShownButton

----------------------------------------------------------------------------
(* The same app with the callbacks of the two transect checkboxes run one  *)
(* at a time.  The script is single-threaded: the callbacks that a         *)
(* setValue fires run before the callbacks still waiting behind the        *)
(* handler that called it.                                                 *)

\* The registrations of lines 1158-1161 and 1191-1194, in their order.
onChange ==
    [transectCheckbox |-> <<"updateTransectDisplay", "updateTransectDiffCheckbox">>,
     transect |-> <<"updateTransectDifference", "updateRawTransectCheckbox">>]

IdleEv ==
    /\ pending = <<>>
    /\ calls = 0
    /\ atToggle = NoProps

\* The user ticks or unticks one of the two checkboxes.
UserToggle(widget) ==
    /\ pcApp = "running"
    /\ pending = <<>>
    /\ components' = [components EXCEPT ![widget] = ~@]
    /\ pending' = onChange[widget]
    /\ calls' = 0
    /\ atToggle' = [widget |-> widget, components |-> components]
    /\ UNCHANGED <<pcApp, url>>
    /\ UNCHANGED <<clVars, selVars, feVars, neVars, maVars, tvVars, genVars, tjVars, biVars, baVars>>

UserToggles == \E widget \in DOMAIN onChange : UserToggle(widget)

\* checkbox.setValue(value) called by the handler at the head of `pending`:
\* the callbacks of the checkbox are fired when its value changes.
SetValueInHandler(widget, value) ==
    IF components[widget] = value
    THEN /\ components' = components
         /\ pending' = Tail(pending)
    ELSE /\ components' = [components EXCEPT ![widget] = value]
         /\ pending' = onChange[widget] \o Tail(pending)

\* The next callback runs.
RunHandler ==
    /\ pending # <<>>
    /\ LET handler == Head(pending)
       IN  CASE handler = "updateTransectDisplay" ->
                    /\ components' = updateTransectDisplay(components)
                    /\ pending' = Tail(pending)
             [] handler = "updateTransectDifference" ->
                    /\ components' = updateTransectDifference(components)
                    /\ pending' = Tail(pending)
             [] handler = "updateTransectDiffCheckbox" ->
                    SetValueInHandler("transect", transectDiffCheckboxValue(components))
             [] handler = "updateRawTransectCheckbox" ->
                    SetValueInHandler("transectCheckbox", rawTransectCheckboxValue(components))
    /\ calls' = calls + 1
    /\ atToggle' = IF pending' = <<>> THEN NoProps ELSE atToggle
    /\ UNCHANGED <<pcApp, url>>
    /\ UNCHANGED <<clVars, selVars, feVars, neVars, maVars, tvVars, genVars, tjVars, biVars, baVars>>

\* Between two cascades the app takes the steps of NextApp.
AppStep == pending = <<>> /\ NextApp

NextEv ==
    \/ AppStep
    \/ UserToggles
    \/ RunHandler

----------------------------------------------------------------------------
(* Basin ID extraction (Step 3.2): the geometries along one line, a basin  *)
(* a stretch and a centroid a point.                                       *)

\* Selected_Basins: two basins sharing the border at 100.
SelectedBasinStretches ==
    << [geom |-> Stretch(0, 100), props |-> [HYBAS_ID |-> 1]],
       [geom |-> Stretch(100, 200), props |-> [HYBAS_ID |-> 2]] >>

\* Raw_Centerlines: two centerlines, each centred in the first basin, on
\* the border, in the second basin or outside the basins, with the CL_ID
\* that randomColumn drew for it.
CenterlineCentroidInputs == {50, 100, 150, 300}
RawCenterlineInput(c, id) ==
    [geom |-> Stretch(c - 10, c + 10), props |-> [CL_ID |-> id, CL_length |-> 20]]

\* ee.Join.saveFirst({matchKey: "HYBAS_ID"}).apply(primary, secondary, filter),
\* matches[i] the features of `secondary` that the filter pairs with
\* primary[i]: the collections that the join can give.  A primary feature
\* without a match is left out; no ordering of the matches is given.
saveFirst_Join_apply(primary, secondary, matches) ==
    LET joinable == SelectSeq([i \in DOMAIN primary |-> i], LAMBDA i : matches[i] # {})
    IN  SeqProduct([k \in DOMAIN joinable |->
            {[geom |-> primary[joinable[k]].geom,
              props |-> ("HYBAS_ID" :> secondary[j]) @@ primary[joinable[k]].props] :
                j \in matches[joinable[k]]}])

\* Lines 29-32: the geometries intersect.
intersect_Filter(primary, secondary) ==
    [i \in DOMAIN primary |->
        {j \in DOMAIN secondary : Intersects(primary[i].geom, secondary[j].geom)}]

\* Lines 35-38: the features have the same CL_ID.
shareID_Filter(primary, secondary) ==
    [i \in DOMAIN primary |->
        {j \in DOMAIN secondary : primary[i].props.CL_ID = secondary[j].props.CL_ID}]

\* Lines 87-101 and 117-131: the joined feature replaced by its basin ID.
ExtractBasinID(joined_Ftr) ==
    [geom |-> joined_Ftr.geom,
     props |-> [joined_Ftr.props EXCEPT !.HYBAS_ID = joined_Ftr.props.HYBAS_ID.props.HYBAS_ID]]

\* centerline_Ftr.centroid(), lines 66-70.
CentroidFeature(centerline_Ftr) ==
    [geom |-> Stretch(Centroid(centerline_Ftr.geom), Centroid(centerline_Ftr.geom)),
     props |-> centerline_Ftr.props]

InitBI ==
    /\ pcBI = "datasets"
    /\ \E c \in [1..2 -> CenterlineCentroidInputs], id \in [1..2 -> RandomValues] :
          rawCenterlines_FC = [i \in 1..2 |-> RawCenterlineInput(c[i], id[i])]
    /\ basins_FC = SelectedBasinStretches
    /\ centroids_FC = <<>>
    /\ centroids_withBasinIDs_FC = <<>>
    /\ centerlines_withBasinIDs_FC = <<>>

IdleBI ==
    /\ pcBI = "off"
    /\ rawCenterlines_FC = <<>>
    /\ basins_FC = <<>>
    /\ centroids_FC = <<>>
    /\ centroids_withBasinIDs_FC = <<>>
    /\ centerlines_withBasinIDs_FC = <<>>

\* Lines 66-70.
CalculateCentroids ==
    /\ pcBI = "datasets"
    /\ centroids_FC' = MapSeq(CentroidFeature, rawCenterlines_FC)
    /\ pcBI' = "centroids"
    /\ UNCHANGED <<rawCenterlines_FC, basins_FC, centroids_withBasinIDs_FC,
                   centerlines_withBasinIDs_FC>>
    /\ UNCHANGED <<clVars, selVars, feVars, neVars, maVars, tvVars, appVars, genVars, tjVars, evVars, baVars>>

\* Lines 80-102.
ExtractCentroidBasinIDs ==
    /\ pcBI = "centroids"
    /\ \E centroids_Basins_FC \in
              saveFirst_Join_apply(centroids_FC, basins_FC,
                                   intersect_Filter(centroids_FC, basins_FC)) :
          centroids_withBasinIDs_FC' = MapSeq(ExtractBasinID, centroids_Basins_FC)
    /\ pcBI' = "centroidIDs"
    /\ UNCHANGED <<rawCenterlines_FC, basins_FC, centroids_FC, centerlines_withBasinIDs_FC>>
    /\ UNCHANGED <<clVars, selVars, feVars, neVars, maVars, tvVars, appVars, genVars, tjVars, evVars, baVars>>

\* Lines 110-132.
AssignCenterlineBasinIDs ==
    /\ pcBI = "centroidIDs"
    /\ \E centerlines_Centroids_FC \in
              saveFirst_Join_apply(rawCenterlines_FC, centroids_withBasinIDs_FC,
                                   shareID_Filter(rawCenterlines_FC, centroids_withBasinIDs_FC)) :
          centerlines_withBasinIDs_FC' = MapSeq(ExtractBasinID, centerlines_Centroids_FC)
    /\ pcBI' = "centerlineIDs"
    /\ UNCHANGED <<rawCenterlines_FC, basins_FC, centroids_FC, centroids_withBasinIDs_FC>>
    /\ UNCHANGED <<clVars, selVars, feVars, neVars, maVars, tvVars, appVars, genVars, tjVars, evVars, baVars>>

NextBI ==
    \/ CalculateCentroids
    \/ ExtractCentroidBasinIDs
    \/ AssignCenterlineBasinIDs

----------------------------------------------------------------------------
(* The Results sections of the generation scripts and the assets between   *)
(* them.  A script is a record: the intermediate assets it loads from the  *)
(* working directory, whether it has the `output` flag, the names of the   *)
(* layers of its display branch, and the kind and the file names of the    *)
(* exports of its other branch.                                            *)

\* `var output = false; // true OR false.`, the same line in every script
\* that has the flag (Step 1.1, line 170).
output_shipped == FALSE

\* The scripts in their stage order.
Scripts == <<
    \* 1: Step 1.1, lines 170-196
    [reads |-> {}, hasOutput |-> TRUE, layers |-> {"AOI"},
     kind |-> "image", fileNames |-> {"Fundamental_Niche_Edge"}],
    \* 2: Step 1.2.1, lines 71-72 and 107-137
    [reads |-> {"Fundamental_Niche_Edge"},
     hasOutput |-> TRUE, layers |-> {"Fundamental niche edge"},
     kind |-> "image", fileNames |-> {"Local_Forest_Elevation"}],
    \* 3: the same file, lines 193-194 and 226-255
    [reads |-> {"Local_Forest_Elevation"},
     hasOutput |-> TRUE, layers |-> {"30-m closed-forest elevation"},
     kind |-> "image", fileNames |-> {"Regional_Forest_Elevation_500m"}],
    \* 4: Step 1.2.3, lines 53-54 and 86-115
    [reads |-> {"Regional_Forest_Elevation_500m"},
     hasOutput |-> TRUE, layers |-> {"500-m closed-forest elevation"},
     kind |-> "image", fileNames |-> {"Regional_Forest_Elevation_10km"}],
    \* 5: unnamed/part_006, lines 50-51 and 72-101
    [reads |-> {"Regional_Forest_Elevation_10km"},
     hasOutput |-> TRUE, layers |-> {"10-km closed-forest elevation"},
     kind |-> "image", fileNames |-> {"Smoothed_Regional_Forest_Elevation"}],
    \* 6: the Step 1.2.1 file, lines 322-331 and 389-426
    [reads |-> {"Fundamental_Niche_Edge", "Smoothed_Regional_Forest_Elevation",
                "Local_Forest_Elevation"},
     hasOutput |-> TRUE,
     layers |-> {"Regional forest elevation", "Fundamental niche edge",
                 "Local forest elevation"},
     kind |-> "image", fileNames |-> {"Broad_Alpine_Treeline_Ecotones"}],
    \* 7: unnamed/part_005, lines 132-133 and 191-220
    [reads |-> {"Broad_Alpine_Treeline_Ecotones"},
     hasOutput |-> TRUE, layers |-> {"Broad ATE"},
     kind |-> "image", fileNames |-> {"MedialAxis_SquaredDistance"}],
    \* 8: unnamed/part_004, lines 79-84 and 106-130
    [reads |-> {"MedialAxis_SquaredDistance"},
     hasOutput |-> TRUE, layers |-> {"Medial axis"},
     kind |-> "table", fileNames |-> {"Selected_Basins"}],
    \* 9: Step 2.3, lines 73-78 and 95-119
    [reads |-> {"MedialAxis_SquaredDistance", "Selected_Basins"},
     hasOutput |-> TRUE, layers |-> {"Selected water basins"},
     kind |-> "table", fileNames |-> {"MedialAxis_PixelCentroids"}],
    \* 10: unnamed/part_002, lines 327-336 and 401-433
    [reads |-> {"Broad_Alpine_Treeline_Ecotones", "Selected_Basins",
                "MedialAxis_PixelCentroids"},
     hasOutput |-> TRUE,
     layers |-> {"Selected water basins", "Broad ATE", "Medial-axis pixel centroids"},
     kind |-> "table", fileNames |-> {"Raw_Centerlines"}],
    \* 11: Step 3.2, lines 53-58 and 139-167
    [reads |-> {"Raw_Centerlines", "Selected_Basins"},
     hasOutput |-> TRUE, layers |-> {"Selected basins", "Raw transect centerlines"},
     kind |-> "table", fileNames |-> {"RawCenterlines_withBasinIDs"}],
    \* 12: unnamed/part_003, lines 42-43 and 150-184
    [reads |-> {"RawCenterlines_withBasinIDs"},
     hasOutput |-> TRUE, layers |-> {"Raw transect centerlines"},
     kind |-> "table",
     fileNames |-> {"Raw_Centerline_Segments", "Grouped_Centerline_Segment_Buffers"}],
    \* 13: Step 4.1, lines 47-56 and 166-198
    [reads |-> {"RawCenterlines_withBasinIDs", "Raw_Centerline_Segments",
                "Grouped_Centerline_Segment_Buffers"},
     hasOutput |-> TRUE,
     layers |-> {"Raw transect centerlines", "Grouped segment buffers",
                 "Raw centerline segments"},
     kind |-> "table", fileNames |-> {"Elevational_Transects"}],
    \* 14: Step 4.2, lines 26-27 and 42-44: no flag and no export
    [reads |-> {"Elevational_Transects"},
     hasOutput |-> FALSE, layers |-> {"Elevational transects"},
     kind |-> "none", fileNames |-> {}] >>

\* Export.image.toAsset / Export.table.toAsset({description: fileName,
\* assetId: <path> + fileName}), one task per file name.
ExportTasks_assetIdIsPath(script) ==
    {[kind |-> script.kind, description |-> fileName, assetId |-> "Your/GEE_Asset/Path/"] :
        fileName \in script.fileNames}

ExportTasks(script) ==
    {[kind |-> script.kind, description |-> fileName, assetId |-> fileName] :
        fileName \in script.fileNames}

\* `if (!output) { Map.addLayer(...) } else { Export...toAsset(...) }`; a
\* script without the flag only displays.
Results_bothBranches(script, flag) ==
    [layers |-> script.layers, tasks |-> ExportTasks(script)]

Results(script, flag) ==
    IF script.hasOutput /\ flag
    THEN [layers |-> {}, tasks |-> ExportTasks(script)]
    ELSE [layers |-> script.layers, tasks |-> {}]

InitGen ==
    /\ opened = 0
    /\ output = output_shipped
    /\ lastRun = NoProps
    /\ assets = {}

IdleGen == InitGen

\* A script is opened from the repository, as shipped.
OpenScript(stage) ==
    /\ opened' = stage
    /\ output' = output_shipped
    /\ lastRun' = NoProps
    /\ UNCHANGED assets
    /\ UNCHANGED <<clVars, selVars, feVars, neVars, maVars, tvVars, appVars, tjVars, evVars, biVars, baVars>>

OpenAScript == \E stage \in DOMAIN Scripts : OpenScript(stage)

\* The user edits the flag of the opened script ("true OR false").
SetOutput ==
    /\ opened # 0
    /\ Scripts[opened].hasOutput
    /\ output' = ~output
    /\ UNCHANGED <<opened, lastRun, assets>>
    /\ UNCHANGED <<clVars, selVars, feVars, neVars, maVars, tvVars, appVars, tjVars, evVars, biVars, baVars>>

\* The opened script is run: its loads find their assets in the working
\* directory, then its Results section is executed.
RunScript ==
    /\ opened # 0
    /\ Scripts[opened].reads \subseteq assets
    /\ LET results == Results(Scripts[opened], output)
       IN  lastRun' = [output |-> output, layers |-> results.layers,
                       tasks |-> results.tasks, completed |-> FALSE]
    /\ UNCHANGED <<opened, output, assets>>
    /\ UNCHANGED <<clVars, selVars, feVars, neVars, maVars, tvVars, appVars, tjVars, evVars, biVars, baVars>>

\* The export tasks of the last run are carried out: each writes its asset.
CompleteExports ==
    /\ lastRun # NoProps
    /\ lastRun.tasks # {}
    /\ ~lastRun.completed
    /\ assets' = assets \cup {task.assetId : task \in lastRun.tasks}
    /\ lastRun' = [lastRun EXCEPT !.completed = TRUE]
    /\ UNCHANGED <<opened, output>>
    /\ UNCHANGED <<clVars, selVars, feVars, neVars, maVars, tvVars, appVars, tjVars, evVars, biVars, baVars>>

NextGen ==
    \/ OpenAScript
    \/ SetOutput
    \/ RunScript
    \/ CompleteExports

----------------------------------------------------------------------------
(* Specifications: one per script group, the other scripts' state idle *)

InitSpecCL == InitCL /\ IdleSel /\ IdleFE /\ IdleNE /\ IdleMA /\ IdleTV /\ IdleApp /\ IdleGen /\ IdleTJ /\ IdleEv /\ IdleBI /\ IdleBA
SpecCL == InitSpecCL /\ [][NextCL]_vars

InitSpecSel == InitSel /\ IdleCL /\ IdleFE /\ IdleNE /\ IdleMA /\ IdleTV /\ IdleApp /\ IdleGen /\ IdleTJ /\ IdleEv /\ IdleBI /\ IdleBA
SpecSel == InitSpecSel /\ [][NextSel]_vars

InitSpecFE == InitFE /\ IdleSel /\ IdleNE /\ IdleMA /\ IdleTV /\ IdleApp /\ IdleGen /\ IdleTJ /\ IdleEv /\ IdleBI /\ IdleBA
SpecFE == InitSpecFE /\ [][NextFE]_vars

InitSpecNE == InitNE /\ IdleSel /\ IdleMA /\ IdleTV /\ IdleApp /\ IdleGen /\ IdleTJ /\ IdleEv /\ IdleBI /\ IdleBA
SpecNE == InitSpecNE /\ [][NextNE]_vars

InitSpecMA == InitMA /\ IdleSel /\ IdleFE /\ IdleNE /\ IdleTV /\ IdleApp /\ IdleGen /\ IdleTJ /\ IdleEv /\ IdleBI /\ IdleBA
SpecMA == InitSpecMA /\ [][NextMA]_vars

InitSpecTV == InitTV /\ IdleCL /\ IdleSel /\ IdleFE /\ IdleNE /\ IdleMA /\ IdleApp /\ IdleGen /\ IdleTJ /\ IdleEv /\ IdleBI /\ IdleBA
SpecTV == InitSpecTV /\ [][NextTV]_vars

InitSpecApp ==
    InitApp /\ IdleCL /\ IdleSel /\ IdleFE /\ IdleNE /\ IdleMA /\ IdleTV /\ IdleGen /\ IdleTJ /\ IdleEv /\ IdleBI /\ IdleBA
SpecApp == InitSpecApp /\ [][NextApp]_vars

InitSpecGen ==
    InitGen /\ IdleCL /\ IdleSel /\ IdleFE /\ IdleNE /\ IdleMA /\ IdleTV /\ IdleApp /\ IdleTJ /\ IdleEv /\ IdleBI /\ IdleBA
SpecGen == InitSpecGen /\ [][NextGen]_vars

InitSpecTJ ==
    InitTJ /\ IdleCL /\ IdleSel /\ IdleFE /\ IdleNE /\ IdleMA /\ IdleApp /\ IdleGen /\ IdleEv /\ IdleBI /\ IdleBA
SpecTJ == InitSpecTJ /\ [][NextTJ]_vars

InitSpecEv ==
    InitApp /\ IdleCL /\ IdleSel /\ IdleFE /\ IdleNE /\ IdleMA /\ IdleTV /\ IdleGen /\ IdleTJ /\ IdleEv /\ IdleBI /\ IdleBA
SpecEv == InitSpecEv /\ [][NextEv]_vars

\* A callback that is waiting runs: the handlers are synchronous calls.
FairSpecEv == SpecEv /\ WF_vars(RunHandler)

InitSpecBI ==
    InitBI /\ IdleCL /\ IdleSel /\ IdleFE /\ IdleNE /\ IdleMA /\ IdleTV /\ IdleApp /\ IdleGen /\ IdleTJ /\ IdleEv /\ IdleBA
SpecBI == InitSpecBI /\ [][NextBI]_vars

InitSpecBA ==
    InitBA /\ IdleSel /\ IdleNE /\ IdleMA /\ IdleTV /\ IdleApp /\ IdleGen /\ IdleTJ /\ IdleEv /\ IdleBI
SpecBA == InitSpecBA /\ [][NextBA]_vars

\* A run of the centerline construction or of the segment joining.
InitSpecNull == InitSpecCL \/ InitSpecTV
NextNull == NextCL \/ NextTV
SpecNull == InitSpecNull /\ [][NextNull]_vars


----------------------------------------------------------------------------
(* Properties of the centerline construction *)

HasBothExtremes(f) == {"nonF_elv", "CF_elv"} \subseteq DOMAIN f.props

\* C1: every constructed centerline has its non-forested endpoint strictly
\* above its closed-forest endpoint, elvRange is their positive difference,
\* and the centerlines are exactly the buffers with nonF_elv > CF_elv: a
\* buffer with nonF_elv <= CF_elv gives no centerline.
C1_UpperAboveLower ==
    pcCL = "constructed" =>
        /\ \A i \in DOMAIN transectCLs :
              LET c == transectCLs[i].props
              IN  /\ c.nonF_elv > c.CF_elv
                  /\ c.elvRange = c.nonF_elv - c.CF_elv
                  /\ c.elvRange > 0
        /\ Len(transectCLs) =
              Cardinality({i \in DOMAIN elvMinMax_perBuffer :
                              /\ HasBothExtremes(elvMinMax_perBuffer[i])
                              /\ elvMinMax_perBuffer[i].props.nonF_elv
                                    > elvMinMax_perBuffer[i].props.CF_elv})

\* One buffer gave a centerline and another, with nonF_elv <= CF_elv, gave none.
C1_Witness ==
    /\ pcCL = "constructed"
    /\ Len(transectCLs) = 1
    /\ \E i \in DOMAIN elvMinMax_perBuffer :
          /\ HasBothExtremes(elvMinMax_perBuffer[i])
          /\ elvMinMax_perBuffer[i].props.nonF_elv <= elvMinMax_perBuffer[i].props.CF_elv

\* What the inputs say of a pixel, independently of the script's images.
IsClosedForestNonRidge(p) ==
    /\ p \in DOMAIN broad_ATE /\ broad_ATE[p] # 0
    /\ landforms[p] > 14
    /\ \A y \in DOMAIN landCover : landCover[y][p] \in 111..116
IsNonForestedRidge(p) ==
    /\ p \in DOMAIN broad_ATE /\ broad_ATE[p] # 0
    /\ landforms[p] <= 14
    /\ \A y \in DOMAIN landCover : landCover[y][p] \in 20..100

RunsBetweenExtremes(cl, buffer) ==
    \E p, q \in PixelsIn(buffer.geom) :
        /\ IsClosedForestNonRidge(p)
        /\ \A p2 \in PixelsIn(buffer.geom) :
              IsClosedForestNonRidge(p2) => ALOSelv[p] <= ALOSelv[p2]
        /\ IsNonForestedRidge(q)
        /\ \A q2 \in PixelsIn(buffer.geom) :
              IsNonForestedRidge(q2) => ALOSelv[q] >= ALOSelv[q2]
        /\ cl.geom.coords = << <<Long(p), Lat(p)>>, <<Long(q), Lat(q)>> >>
        /\ cl.props.CF_elv = ALOSelv[p]
        /\ cl.props.CF_lat = Lat(p) /\ cl.props.CF_long = Long(p)
        /\ cl.props.nonF_elv = ALOSelv[q]
        /\ cl.props.nonF_lat = Lat(q) /\ cl.props.nonF_long = Long(q)

SelectedOf(elvMinMax) ==
    SelectSeq(elvMinMax, LAMBDA f : HasBothExtremes(f) /\ f.props.nonF_elv > f.props.CF_elv)

\* C6: the centerline of every selected buffer runs from the coordinates of
\* the lowest closed-forest non-ridge pixel inside the buffer to those of the
\* highest non-forested ridge pixel inside it, the carried coordinates being
\* those of the pixels attaining CF_elv and nonF_elv; and the bands of the
\* combined image are in the input order of the combined reducer.
C6_ExtremePixelEndpoints ==
    /\ pcCL \in {"images", "constructed"} =>
          bandNames(CF_nonF_elvCoords_Img)
              = combinedElvReducer[1].outputs \o combinedElvReducer[2].outputs
    /\ pcCL = "constructed" =>
          /\ Len(transectCLs) = Len(SelectedOf(elvMinMax_perBuffer))
          /\ \A k \in DOMAIN transectCLs :
                RunsBetweenExtremes(transectCLs[k], SelectedOf(elvMinMax_perBuffer)[k])

\* A centerline whose buffer holds two closed-forest pixels and two
\* non-forested pixels of different elevations: the extremes had to be chosen.
C6_Witness ==
    /\ pcCL = "constructed"
    /\ \E k \in DOMAIN transectCLs :
          LET region == PixelsIn(SelectedOf(elvMinMax_perBuffer)[k].geom)
          IN  \E p, p2 \in region :
                 /\ IsClosedForestNonRidge(p) /\ IsClosedForestNonRidge(p2)
                 /\ ALOSelv[p] < ALOSelv[p2]
                 /\ transectCLs[k].props.CF_long = Long(p)
                 /\ transectCLs[k].props.CF_lat = Lat(p)

----------------------------------------------------------------------------
(* Properties of the grouping and of the steepest-transect identification *)

InLengthWindow(len) == 300 <= len /\ len <= 3000

\* C2: every centerline kept by the length filter, and every transect
\* buffered from one, has 300 <= CL_length <= 3000, both bounds included.
C2_LengthWindow ==
    /\ pcSel \in {"selected", "transects"} =>
          \A k \in DOMAIN steepestCenterlines_FC :
              InLengthWindow(steepestCenterlines_FC[k].props.CL_length)
    /\ \A k \in DOMAIN steepestTransects_FC :
          InLengthWindow(steepestTransects_FC[k].props.CL_length)

\* Transects of 300 m and of 3000 m are both in the output, and an
\* identified centerline outside the window was dropped.
C2_Witness ==
    /\ pcSel = "transects"
    /\ \E i, j \in DOMAIN steepestTransects_FC :
          /\ steepestTransects_FC[i].props.CL_length = 300
          /\ steepestTransects_FC[j].props.CL_length = 3000
    /\ Len(steepestTransects_FC) < Len(steepestSegments_FC)

SameGroup(a, b) == a.geom = b.geom /\ a.props.HYBAS_ID = b.props.HYBAS_ID

\* The segments of a group: those of its basin that intersect its polygon.
SegmentsOf(group) ==
    {i \in DOMAIN segments_FC :
        /\ segments_FC[i].props.HYBAS_ID = group.props.HYBAS_ID
        /\ Intersects(segments_FC[i].geom, group.geom)}

\* The order-preserving one-to-one assignments of the elements of a
\* collection of n features to the elements of one of m features.
Selections(n, m) == {f \in [1..n -> 1..m] : \A a, b \in 1..n : a < b => f[a] < f[b]}

\* Each feature of "chosen" is the centerline looked up for a different joined group.
ChosenForDistinctGroups(chosen) ==
    \E f \in Selections(Len(chosen), Len(steepestSegments_FC)) :
        \A k \in DOMAIN chosen :
            /\ chosen[k].props.CL_ID = steepestSegments_FC[f[k]].props.steepest.props.CL_ID
            /\ chosen[k].props.HYBAS_ID = steepestSegments_FC[f[k]].props.HYBAS_ID

\* C3: at most one transect survives per spatial group: the join gives at
\* most one joined feature per grouped polygon, one centerline is identified
\* per joined feature, and the centerlines and transects kept afterwards are
\* each the one identified for a different group.
C3_AtMostOnePerGroup ==
    /\ \A i, j \in DOMAIN steepestSegments_FC :
          i # j => ~SameGroup(steepestSegments_FC[i], steepestSegments_FC[j])
    /\ \A i \in DOMAIN steepestSegments_FC :
          \E g \in DOMAIN groupedBuffers_FC : SameGroup(steepestSegments_FC[i], groupedBuffers_FC[g])
    /\ pcSel = "identified" => Len(steepestCenterlines_FC) = Len(steepestSegments_FC)
    /\ pcSel \in {"identified", "selected", "transects"} =>
          ChosenForDistinctGroups(steepestCenterlines_FC)
    /\ pcSel = "transects" => ChosenForDistinctGroups(steepestTransects_FC)

\* A group of two segments gave one transect, and no group was dropped.
C3_Witness ==
    /\ pcSel = "transects"
    /\ Len(steepestTransects_FC) = Len(steepestSegments_FC)
    /\ \E k \in DOMAIN steepestSegments_FC :
          Cardinality(SegmentsOf(steepestSegments_FC[k])) >= 2

LookedUp(joined) ==
    LET ids == {i \in DOMAIN centerlines_FC :
                   /\ centerlines_FC[i].props.HYBAS_ID = joined.props.HYBAS_ID
                   /\ centerlines_FC[i].props.CL_ID = joined.props.steepest.props.CL_ID}
    IN  centerlines_FC[SetMin(ids)]

SurvivingGroups ==
    {k \in DOMAIN steepestSegments_FC :
        InLengthWindow(LookedUp(steepestSegments_FC[k]).props.CL_length)}

C5_PickedIsSteepest ==
    pcSel = "identified" =>
        \A k \in DOMAIN steepestCenterlines_FC :
            steepestCenterlines_FC[k].props.elvRange =
                SetMax({segments_FC[i].props.elvRange : i \in SegmentsOf(steepestSegments_FC[k])})

\* The segment buffers of a group: those of its basin that intersect its polygon.
BuffersOf(group) ==
    {i \in DOMAIN segmentBuffers_FC :
        /\ segmentBuffers_FC[i].props.HYBAS_ID = group.props.HYBAS_ID
        /\ Intersects(segmentBuffers_FC[i].geom, group.geom)}

\* A segment of another basin lies on the polygon of the group.
ForeignSegmentsOn(group) ==
    {i \in DOMAIN segments_FC :
        /\ segments_FC[i].props.HYBAS_ID # group.props.HYBAS_ID
        /\ Intersects(segments_FC[i].geom, group.geom)}

\* C18: the basin is the grouping key.  A grouped polygon is the union of
\* segment buffers of its own basin only; the segment joined to a group as
\* its steepest is of the group's basin and has the greatest elvRange of the
\* group's own segments, whatever segments of other basins lie on the
\* polygon; and the centerline identified for the group is of its basin.
C18_BasinIsGroupingKey ==
    /\ \A g \in DOMAIN groupedBuffers_FC :
          LET group == groupedBuffers_FC[g]
              own == BuffersOf(group)
          IN  /\ own # {}
              /\ group.geom.lo = SetMin({segmentBuffers_FC[i].geom.lo : i \in own})
              /\ group.geom.hi = SetMax({segmentBuffers_FC[i].geom.hi : i \in own})
    /\ \A k \in DOMAIN steepestSegments_FC :
          LET joined == steepestSegments_FC[k]
          IN  /\ joined.props.steepest.props.HYBAS_ID = joined.props.HYBAS_ID
              /\ joined.props.steepest.props.elvRange =
                     SetMax({segments_FC[i].props.elvRange : i \in SegmentsOf(joined)})
              /\ pcSel = "identified" =>
                     steepestCenterlines_FC[k].props.HYBAS_ID = joined.props.HYBAS_ID

\* The buffers of two basins overlap: two groups intersect, and a segment
\* of the other basin lying on a group is steeper than the group's steepest.
C18_Witness ==
    /\ pcSel = "identified"
    /\ \E k \in DOMAIN steepestSegments_FC :
          LET joined == steepestSegments_FC[k]
          IN  /\ \E g \in DOMAIN groupedBuffers_FC :
                     /\ groupedBuffers_FC[g].props.HYBAS_ID # joined.props.HYBAS_ID
                     /\ Intersects(groupedBuffers_FC[g].geom, joined.geom)
              /\ \E i \in ForeignSegmentsOn(joined) :
                     segments_FC[i].props.elvRange > joined.props.steepest.props.elvRange

\* The steepest centerline of each joined group: its steepest segment
\* carries the properties of the centerline it was cut from.
SteepestOfGroups ==
    [k \in DOMAIN steepestSegments_FC |-> steepestSegments_FC[k].props.steepest.props]

\* The centerlines of the basin of centerline i whose buffers are linked to
\* the buffer of a centerline of S, directly or through other buffers.
RECURSIVE LinkedTo(_, _)
LinkedTo(S, basin) ==
    LET next == S \cup {j \in DOMAIN segmentBuffers_FC :
                          /\ segmentBuffers_FC[j].props.HYBAS_ID = basin
                          /\ \E i \in S : Intersects(segmentBuffers_FC[i].geom,
                                                      segmentBuffers_FC[j].geom)}
    IN  IF next = S THEN S ELSE LinkedTo(next, basin)

\* The connected components of the buffers of a basin.
ComponentsOf(basin) ==
    {LinkedTo({i}, basin) : i \in {j \in DOMAIN segmentBuffers_FC :
                                      segmentBuffers_FC[j].props.HYBAS_ID = basin}}

\* The groups of the basin of a segment whose polygon the segment intersects.
GroupsOfSegment(i) ==
    {g \in DOMAIN groupedBuffers_FC :
        /\ groupedBuffers_FC[g].props.HYBAS_ID = segments_FC[i].props.HYBAS_ID
        /\ Intersects(segments_FC[i].geom, groupedBuffers_FC[g].geom)}

MatchedByLookup(joined) ==
    filterEq(filterEq(centerlines_FC, "HYBAS_ID", joined.props.HYBAS_ID),
             "CL_ID", joined.props.steepest.props.CL_ID)

\* C25 as claimed: the lookup by CL_ID within the basin matches exactly one
\* centerline, and the centerline identified for a group is the one that
\* the steepest segment of the group was cut from.
C25_LookupFindsSourceCenterline ==
    pcSel = "identified" =>
        \A k \in DOMAIN steepestSegments_FC :
            /\ Len(MatchedByLookup(steepestSegments_FC[k])) = 1
            /\ SegmentCenterline(steepestCenterlines_FC[k]) =
                   steepestSegments_FC[k].props.steepest

\* C19 as claimed: the steepest centerline of each group is identified
\* first and the length filter is evaluated on it only, so the centerlines
\* kept, and the transects, are the steepest centerlines of the groups that
\* are 300 to 3000 m long, and a group whose steepest centerline is outside
\* the window gives no transect.
C19_FilterOnSteepestOnly ==
    /\ pcSel \in {"selected", "transects"} =>
          MapSeq(LAMBDA f : f.props, steepestCenterlines_FC) =
              SelectSeq(SteepestOfGroups, LAMBDA props : InLengthWindow(props.CL_length))
    /\ pcSel = "transects" =>
          MapSeq(LAMBDA f : f.props, steepestTransects_FC) =
              SelectSeq(SteepestOfGroups, LAMBDA props : InLengthWindow(props.CL_length))

----------------------------------------------------------------------------
(* Properties of the closed-forest rule *)

ClosedForestInAllYears(p) == \A y \in DOMAIN landCover : landCover[y][p] \in 111..116

IsOne(img, p) == p \in DOMAIN img /\ img[p] = 1

\* C7: a pixel counts as closed forest exactly when its land-cover class is
\* in 111..116 in every one of the five years, in the forest-elevation
\* determination (CF_5yr, local_Forest_Elv) and in the centerline
\* construction (CF_inAllYrs, CF_nonRidges) alike.
C7_ClosedForestInAllYears ==
    /\ pcFE = "determined" =>
          \A p \in Pixels :
              /\ IsOne(CF_5yr, p) <=> ClosedForestInAllYears(p)
              /\ p \in DOMAIN local_Forest_Elv
                    <=> (IsOne(fund_Niche_Edge, p) /\ ClosedForestInAllYears(p))
    /\ pcCL = "masks" =>
          \A p \in Pixels :
              /\ IsOne(CF_inAllYrs, p) <=> ClosedForestInAllYears(p)
              /\ p \in DOMAIN CF_nonRidges => ClosedForestInAllYears(p)
    /\ (pcFE = "determined" /\ pcCL = "masks") => CF_5yr = CF_inAllYrs

\* Both scripts have run on a pixel that is closed forest in four years and
\* of class 117 in one, next to a pixel that is closed forest in all five.
C7_Witness ==
    /\ pcFE = "determined" /\ pcCL = "masks"
    /\ Cardinality({y \in DOMAIN landCover : landCover[y][<<0, 0>>] \in 111..116}) = 4
    /\ \E y \in DOMAIN landCover : landCover[y][<<0, 0>>] = 117
    /\ ~IsOne(CF_5yr, <<0, 0>>)
    /\ IsOne(CF_5yr, <<0, 4>>)

----------------------------------------------------------------------------
(* Properties of the fundamental niche edge *)

\* A pixel of the K3 mountains within 500 m, vertically, of the average
\* climatic treeline elevation.
VerticallyClose(q) ==
    LET mean == (TLHreprj[1][q] + TLHreprj[2][q]) \div 2
        d == mean - ALOSelv[q]
    IN  /\ k3Binary[q] # 0
        /\ d <= 500 /\ d >= 0 - 500

ColumnsApart(p, q) == IF p[1] >= q[1] THEN p[1] - q[1] ELSE q[1] - p[1]

\* C8: a pixel is in the fundamental niche edge exactly when some pixel of
\* the K3 mask with |avgTLH - elevation| <= 500 lies at most 100 pixels
\* from it; the other pixels are masked, none is stored as 0.
C8_FundNicheEdge ==
    pcNE = "identified" =>
        /\ \A p \in NEPixels :
              p \in DOMAIN fund_Niche_Edge
                  <=> \E q \in NEPixels : VerticallyClose(q) /\ ColumnsApart(p, q) <= 100
        /\ \A p \in DOMAIN fund_Niche_Edge : fund_Niche_Edge[p] = 1

\* One pixel is in the niche edge for a vertically close pixel exactly 100
\* pixels away, and another is masked out with such a pixel 101 pixels away.
C8_Witness ==
    /\ pcNE = "identified"
    /\ \E p \in DOMAIN fund_Niche_Edge :
          /\ ~VerticallyClose(p)
          /\ \E q \in NEPixels : VerticallyClose(q) /\ ColumnsApart(p, q) = 100
    /\ \E p \in NEPixels \ DOMAIN fund_Niche_Edge :
          \E q \in NEPixels : VerticallyClose(q) /\ ColumnsApart(p, q) = 101

----------------------------------------------------------------------------
(* Properties of the medial axis *)

IsRidgeClass(c) == c <= 14
IsValleyClass(c) == c >= 41

RidgeImage == [q \in MAPixels |-> IF IsRidgeClass(LF_noInvaid[q]) THEN 1 ELSE 0]
ValleyImage == [q \in MAPixels |-> IF IsValleyClass(LF_noInvaid[q]) THEN 1 ELSE 0]
RidgeOrValleyImage ==
    [q \in MAPixels |->
        IF IsRidgeClass(LF_noInvaid[q]) \/ IsValleyClass(LF_noInvaid[q]) THEN 1 ELSE 0]

InSegmentation(img, p) ==
    LET seg == landformsDistance_Segmentation(img)
    IN  p \in DOMAIN seg /\ seg[p] # 0

OnMedialAxis(p) == p \in DOMAIN medial_Axis /\ medial_Axis[p] # 0

InBroadATE(p) == p \in DOMAIN broad_ATE /\ broad_ATE[p] # 0

\* C9: a pixel is on the medial axis exactly when it is in the distance
\* segmentation of the ridges (classes <= 14) and in that of the valleys
\* (classes >= 41) and not in that of the ridges or valleys; every pixel of
\* the exported layer is on the medial axis and inside the broad ATE.
C9_MedialAxis ==
    /\ pcMA \in {"medial", "derived"} =>
          \A p \in MAPixels :
              OnMedialAxis(p) <=> /\ InSegmentation(RidgeImage, p)
                                  /\ InSegmentation(ValleyImage, p)
                                  /\ ~InSegmentation(RidgeOrValleyImage, p)
    /\ pcMA = "derived" =>
          \A p \in DOMAIN sqDist_MedialAxis : OnMedialAxis(p) /\ InBroadATE(p)

\* A pixel of the medial axis is exported, another is on the medial axis but
\* outside the broad ATE, a third is in the segmentations of the ridges and
\* of the valleys and also in that of both.
C9_Witness ==
    /\ pcMA = "derived"
    /\ \E p \in DOMAIN sqDist_MedialAxis : OnMedialAxis(p)
    /\ \E p \in MAPixels : OnMedialAxis(p) /\ ~InBroadATE(p)
    /\ \E p \in MAPixels :
          /\ InSegmentation(RidgeImage, p)
          /\ InSegmentation(ValleyImage, p)
          /\ InSegmentation(RidgeOrValleyImage, p)
          /\ ~OnMedialAxis(p)

----------------------------------------------------------------------------
(* Properties of the segment differences *)

\* The two segments of a pair in a file, both with the value.
IsSegmentPair(shp, s1, s2, valCol) ==
    /\ s1 \in Range(shp) /\ s2 \in Range(shp)
    /\ s1["Segment_ID"] = 1 /\ s2["Segment_ID"] = 2
    /\ s1["ET_ID"] = s2["ET_ID"] /\ s1[groupName] = s2[groupName]
    /\ valCol \in DOMAIN s1 /\ valCol \in DOMAIN s2

UpperMinusLower(s1, s2, valCol) ==
    IF s1["avg_Elv"] > s2["avg_Elv"] THEN s1[valCol] - s2[valCol]
                                     ELSE s2[valCol] - s1[valCol]

DifferenceRows(df, s1) ==
    {d \in Range(df) : d["ET_ID"] = s1["ET_ID"] /\ d[groupName] = s1[groupName]}

DifferenceIsUpperMinusLower(shp, df, valCol, diffCol) ==
    \A s1 \in Range(shp), s2 \in Range(shp) :
        IsSegmentPair(shp, s1, s2, valCol) /\ s1["avg_Elv"] # s2["avg_Elv"] =>
            /\ DifferenceRows(df, s1) # {}
            /\ \A d \in DifferenceRows(df, s1) :
                  /\ diffCol \in DOMAIN d
                  /\ d[diffCol] = UpperMinusLower(s1, s2, valCol)

\* C10: for every joined pair of segments of different elevations, NDVI_diff
\* (and VCH_diff) is the value of the higher segment minus that of the lower
\* one, whichever of Segment_ID 1 and 2 is the higher.
C10_UpperMinusLower ==
    pcTV = "differenced" =>
        /\ DifferenceIsUpperMinusLower(NDVIsegments_SHP, NDVIsegments_DF,
                                       "avg_NDVI", "NDVI_diff")
        /\ DifferenceIsUpperMinusLower(VCHsegments_SHP, VCHsegments_DF,
                                       "avg_VCH", "VCH_diff")

\* In one pair segment 1 is the higher, in another segment 2, the values of
\* the two segments differ in both, and both differences are in the tables.
C10_Witness ==
    /\ pcTV = "differenced"
    /\ Len(NDVIsegments_DF) = 2
    /\ Len(VCHsegments_DF) = 2
    /\ \E s1 \in Range(NDVIsegments_SHP), s2 \in Range(NDVIsegments_SHP) :
          /\ IsSegmentPair(NDVIsegments_SHP, s1, s2, "avg_NDVI")
          /\ s1["avg_Elv"] > s2["avg_Elv"]
          /\ s1["avg_NDVI"] # s2["avg_NDVI"]
    /\ \E s1 \in Range(VCHsegments_SHP), s2 \in Range(VCHsegments_SHP) :
          /\ IsSegmentPair(VCHsegments_SHP, s1, s2, "avg_VCH")
          /\ s1["avg_Elv"] < s2["avg_Elv"]
          /\ s1["avg_VCH"] # s2["avg_VCH"]
    /\ \E s1 \in Range(NDVIsegments_SHP), s2 \in Range(NDVIsegments_SHP) :
          /\ IsSegmentPair(NDVIsegments_SHP, s1, s2, "avg_NDVI")
          /\ s1["avg_Elv"] < s2["avg_Elv"]
          /\ s1["avg_NDVI"] # s2["avg_NDVI"]

----------------------------------------------------------------------------
(* Properties of the null results *)

\* A pair of segments of a file without a difference: equal elevations, or
\* the value missing in either segment.
IsNullPair(s1, s2, valCol) ==
    /\ s1["Segment_ID"] = 1 /\ s2["Segment_ID"] = 2
    /\ s1["ET_ID"] = s2["ET_ID"] /\ s1[groupName] = s2[groupName]
    /\ \/ s1["avg_Elv"] = s2["avg_Elv"]
       \/ valCol \notin DOMAIN s1
       \/ valCol \notin DOMAIN s2

NullPairsDropped(shp, df, valCol, diffCol) ==
    /\ \A s1 \in Range(shp), s2 \in Range(shp) :
          IsNullPair(s1, s2, valCol) => DifferenceRows(df, s1) = {}
    /\ \A d \in Range(df) : diffCol \in DOMAIN d

\* A buffer without a closed-forest pixel or without a non-forested pixel.
LacksAnExtreme(buffer) ==
    \/ \A p \in PixelsIn(buffer.geom) : ~IsClosedForestNonRidge(p)
    \/ \A p \in PixelsIn(buffer.geom) : ~IsNonForestedRidge(p)

\* C11: a segment pair with equal average elevations or with a missing NDVI
\* or VCH value has no difference row, and no row holds an NA difference; a
\* buffer lacking a closed-forest or a non-forested pixel has a null extreme
\* and gives no centerline; and the step that drops them can always be taken
\* (the difference calculation is enabled, reduceRegions has an outcome for
\* every basin).
C11_NullResultsDropped ==
    /\ pcTV = "joined" => ENABLED DifferenceCalculation
    /\ pcTV = "differenced" =>
          /\ NullPairsDropped(NDVIsegments_SHP, NDVIsegments_DF, "avg_NDVI", "NDVI_diff")
          /\ NullPairsDropped(VCHsegments_SHP, VCHsegments_DF, "avg_VCH", "VCH_diff")
    /\ pcCL = "images" =>
          ElvMinMax_byBasin(selectedBasins, medialAxis_PxCtds,
                            CF_nonF_elvCoords_Img, combinedElvReducer) # {}
    /\ pcCL = "constructed" =>
          /\ \A i \in DOMAIN elvMinMax_perBuffer :
                LacksAnExtreme(elvMinMax_perBuffer[i])
                    => ~HasBothExtremes(elvMinMax_perBuffer[i])
          /\ Len(transectCLs) <=
                Cardinality({i \in DOMAIN elvMinMax_perBuffer :
                                ~LacksAnExtreme(elvMinMax_perBuffer[i])})
          /\ \A k \in DOMAIN transectCLs : HasBothExtremes(transectCLs[k])

\* Two pairs were in the NDVI file, one of equal elevations, and one row is
\* left; the VCH of a segment was missing and no VCH row is left.
C11_Witness ==
    /\ pcTV = "differenced"
    /\ Len(NDVIsegments_DF) = 1
    /\ Len(VCHsegments_DF) = 0
    /\ Len(NDVIsegments_SHP) = 4
    /\ \E s1 \in Range(NDVIsegments_SHP), s2 \in Range(NDVIsegments_SHP) :
          /\ IsSegmentPair(NDVIsegments_SHP, s1, s2, "avg_NDVI")
          /\ s1["avg_Elv"] = s2["avg_Elv"]
    /\ \E s1 \in Range(VCHsegments_SHP) : "avg_VCH" \notin DOMAIN s1

\* A buffer without a closed-forest pixel gave no centerline and another
\* buffer gave one.
C11_WitnessBuffer ==
    /\ pcCL = "constructed"
    /\ Len(transectCLs) = 1
    /\ \E i \in DOMAIN elvMinMax_perBuffer :
          /\ LacksAnExtreme(elvMinMax_perBuffer[i])
          /\ "CF_elv" \notin DOMAIN elvMinMax_perBuffer[i].props

----------------------------------------------------------------------------
(* Properties of the visualization app *)

TransectWithID(id) == CHOOSE t \in Range(ATETs) : t.props.ET_ID = id

DistanceTo(t, lon) ==
    IF lon < t.geom.lo THEN t.geom.lo - lon
    ELSE IF lon > t.geom.hi THEN lon - t.geom.hi ELSE 0

\* The inspector shows a transect, for the clicked point of layer 5.
InspectorFilled == pcApp = "running" /\ Len(components.layers) = 6

ClickedLon == components.layers[6].eeObject.point["lon"]

C13_UrlHoldsLastClick ==
    [][/\ \A coords \in ClickCoords :
              ClickMapAt(coords) =>
                  /\ DOMAIN url' = {"click_lon", "click_lat"}
                  /\ url'["click_lon"] = coords["lon"]
                  /\ url'["click_lat"] = coords["lat"]
       /\ url' # url => ClickMap]_vars

\* The page was opened without parameters, and a click that hit no transect
\* is in the URL.
C13_Witness ==
    /\ pcApp = "running"
    /\ components.inspectorPanel_shown = FALSE
    /\ DOMAIN url = {"click_lon", "click_lat"}
    /\ url["click_lon"] = 1000

\* C14 as claimed: a run of a generation script as shipped reaches
\* Export.image.toAsset or Export.table.toAsset.
C14_ShippedRunExports ==
    (lastRun # NoProps /\ lastRun.output = output_shipped) => lastRun.tasks # {}

\* C14, amended: a run of a generation script reaches its exports exactly
\* when the script has the output flag and the flag was set to true, and then
\* it starts one export task of the script's kind per file name and adds no
\* layer; otherwise, the run as shipped included, it only adds its layers.
C14_ExportsIffOutputSet ==
    lastRun # NoProps =>
        LET script == Scripts[opened]
        IN  /\ lastRun.tasks # {} <=> (script.hasOutput /\ lastRun.output)
            /\ lastRun.tasks # {} =>
                   /\ {task.description : task \in lastRun.tasks} = script.fileNames
                   /\ \A task \in lastRun.tasks : task.kind = script.kind
                   /\ lastRun.layers = {}
            /\ lastRun.tasks = {} => lastRun.layers = script.layers
            /\ lastRun.output = output_shipped => lastRun.tasks = {}

\* Step 4.1 was run as shipped and displayed its three layers only.
C14_Witness ==
    /\ opened = 13
    /\ lastRun # NoProps
    /\ lastRun.output = output_shipped
    /\ lastRun.tasks = {}
    /\ Cardinality(lastRun.layers) = 3

\* The stages whose export branch names the asset.
Exporters(name) == {stage \in DOMAIN Scripts : name \in Scripts[stage].fileNames}

\* C15: when a script has run, every intermediate asset it loaded is in the
\* working directory and is the file name of exactly one stage, a strictly
\* earlier one; and the exports it completed are there under their file names.
C15_AcyclicStages ==
    lastRun # NoProps =>
        /\ \A name \in Scripts[opened].reads :
              /\ name \in assets
              /\ Cardinality(Exporters(name)) = 1
              /\ \A stage \in Exporters(name) : stage < opened
        /\ lastRun.completed => Scripts[opened].fileNames \subseteq assets

\* The last script has run: every stage before it has exported.
C15_Witness ==
    /\ opened = Len(Scripts)
    /\ lastRun # NoProps
    /\ assets = UNION {Scripts[stage].fileNames : stage \in DOMAIN Scripts}

\* The treatment levels of the segment files.
TreatmentLevels(shp) == {s[groupName] : s \in Range(shp)}

\* The transect has both segments of the level, with their values and at
\* different elevations.
HasAdjustedDifference(shp, id, level, valCol) ==
    \E s1 \in Range(shp), s2 \in Range(shp) :
        /\ IsSegmentPair(shp, s1, s2, valCol)
        /\ s1["ET_ID"] = id /\ s1[groupName] = level
        /\ s1["avg_Elv"] # s2["avg_Elv"]

HasRawDifference(r, upper, lower) == upper \in DOMAIN r /\ lower \in DOMAIN r

HasAllDifferences(r, levelsNDVI, levelsVCH) ==
    /\ HasRawDifference(r, "U_NDVI", "L_NDVI")
    /\ HasRawDifference(r, "U_CanopyHt", "L_CanopyHt")
    /\ \A level \in levelsNDVI :
          HasAdjustedDifference(NDVIsegments_SHP, r["ET_ID"], level, "avg_NDVI")
    /\ \A level \in levelsVCH :
          HasAdjustedDifference(VCHsegments_SHP, r["ET_ID"], level, "avg_VCH")

InTable(df, r) == \E d \in Range(df) : d["ET_ID"] = r["ET_ID"]

\* C17 as claimed: a sampled transect is in transects_TwoDiff exactly when it
\* has its raw NDVI and canopy-height differences and an adjusted difference
\* of both for every ratio of the segment files; and the table has no more
\* rows than transects_NDVIdiff and than transects_VCHdiff.
C17_InTwoDiffIffAllDifferences ==
    pcTV = "combined" =>
        /\ \A r \in Range(sampled_SHP) :
              InTable(transects_TwoDiff, r) <=>
                  HasAllDifferences(r, TreatmentLevels(NDVIsegments_SHP),
                                       TreatmentLevels(VCHsegments_SHP))
        /\ Len(transects_TwoDiff) <= Len(transects_NDVIdiff)
        /\ Len(transects_TwoDiff) <= Len(transects_VCHdiff)

\* C16: layers 0, 1 and 2 are painted from the gmba, hybas and ATET entries
\* of the selected difference type and shown as the mountain, watershed and
\* transect checkboxes say; layers 3 and 4 are shown as the raw-transect and
\* centroid checkboxes say.
C16_LayersFollowSelectors ==
    pcApp = "running" =>
        LET layers == components.layers
            type == diffTypes[components.diffSelector]
            paintedFrom(layer, entry) ==
                /\ layer.eeObject = [paint |-> entry.data, color |-> entry.varName]
                /\ layer.visParams = type.vis
        IN  /\ Len(layers) >= 5
            /\ paintedFrom(layers[1], type.gmba) /\ layers[1].shown = components.mountain
            /\ paintedFrom(layers[2], type.hybas) /\ layers[2].shown = components.watershed
            /\ paintedFrom(layers[3], type.ATET) /\ layers[3].shown = components.transect
            /\ layers[4].eeObject = [collection |-> "ATETs"]
            /\ layers[4].shown = components.transectCheckbox
            /\ layers[5].eeObject = [collection |-> "ATECs"]
            /\ layers[5].shown = components.centroidCheckbox

\* The NDVI difference is selected, and every checkbox but the raw-transect
\* one, unchecked by the transect-level one, has been toggled.
C16_Witness ==
    /\ pcApp = "running"
    /\ components.diffSelector = NDVIDifference
    /\ components.mountain /\ ~components.watershed /\ components.transect
    /\ components.centroidCheckbox /\ ~components.transectCheckbox
    /\ components.layers[3].shown /\ ~components.layers[4].shown

\* C20 as claimed: when the difference selector changes while the button
\* reads 'Hide information' and the inspector displays a transect, the chart
\* afterwards plots the newly selected metric of that transect.
C20_InspectorRefreshed ==
    [][(/\ ChangeDifference
        /\ components.shownButton = "Hide information"
        /\ components.chartPanel # <<>>)
       => LET t == TransectWithID(components'.inspectorValues.ID)
              suffix == diffTypes[components'.diffSelector].suffix
          IN  components'.chartPanel[1].y =
                  IF suffix = "NDVI" THEN <<t.props.L_NDVI, t.props.U_NDVI>>
                                     ELSE <<t.props.L_CanopyHt, t.props.U_CanopyHt>>]_vars

\* C21: once the app is initialized, the raw-transect checkbox and the
\* transect-level difference checkbox are never both checked; a toggle that
\* checks one of them leaves it checked and the other unchecked, and a toggle
\* that unchecks one leaves the other as it was.
C21_MutualExclusion ==
    /\ [](pcApp = "running" => ~(components.transectCheckbox /\ components.transect))
    /\ [][/\ ToggleTransectCheckbox =>
               IF components.transectCheckbox
               THEN /\ ~components'.transectCheckbox
                    /\ components'.transect = components.transect
               ELSE components'.transectCheckbox /\ ~components'.transect
          /\ ToggleTransectLevel =>
               IF components.transect
               THEN /\ ~components'.transect
                    /\ components'.transectCheckbox = components.transectCheckbox
               ELSE components'.transect /\ ~components'.transectCheckbox]_vars

\* The transect-level checkbox was checked while the raw-transect checkbox,
\* checked when the app is composed, was checked: the latter is unchecked and
\* its layer hidden.
C21_Witness ==
    /\ pcApp = "running"
    /\ components.transect /\ ~components.transectCheckbox
    /\ components.layers[3].shown /\ ~components.layers[4].shown
    /\ ~components.mountain /\ components.watershed

\* The handlers that the two checkboxes register.
MaxHandlerCalls == Len(onChange.transectCheckbox) + Len(onChange.transect)

\* No handler of the two checkboxes would change a value.
Quiescent ==
    /\ transectDiffCheckboxValue(components) = components.transect
    /\ rawTransectCheckboxValue(components) = components.transectCheckbox

\* C22: after a toggle of the raw-transect or of the transect-level
\* checkbox, the handlers run and the handlers waiting are never more than
\* the four registered ones together; the callbacks run out, and then no
\* handler would change a value and the components are those of the
\* toggle taken as one step.
C22_CascadeTerminates ==
    /\ [](/\ Len(pending) + calls <= MaxHandlerCalls
          /\ (pcApp = "running" /\ pending = <<>>) => Quiescent)
    /\ [][(RunHandler /\ pending' = <<>>) =>
              components' =
                  IF atToggle.widget = "transectCheckbox"
                  THEN setTransectCheckbox(atToggle.components,
                                           ~atToggle.components.transectCheckbox)
                  ELSE setTransectLevelCheckbox(atToggle.components,
                                                ~atToggle.components.transect)]_vars
    /\ (pending # <<>>) ~> (pending = <<>>)

\* A toggle has run all the four handlers: it checked one checkbox and the
\* cascade unchecked the other.
C22_Witness ==
    /\ pending = <<>>
    /\ calls = MaxHandlerCalls
    /\ components.transectCheckbox # components.transect

\* C26 as claimed: inspectTransect leaves at its first guard only when it
\* is given no coordinates; a map click, and an app load with click_lon and
\* click_lat in the URL, go on to the lookup of the transects within 90 m.
C26_GuardOnlyWithoutCoordinates ==
    [][/\ \A coords \in ClickCoords :
              ClickMapAt(coords) => components' = lookupTransect(components, coords)
       /\ (Initialize /\ DOMAIN url = {"click_lon", "click_lat"}) =>
              components'.inspectorPanel_shown =
                  lookupTransect(components, urlClickCoords(url)).inspectorPanel_shown]_vars

\* C27 as claimed: the inspector button reads 'Hide information' exactly
\* when the inspector container is shown and 'Show information' exactly
\* when it is hidden; a click on the button flips the two together, and a
\* map click within 90 m of a transect leaves the container shown and the
\* button reading 'Hide information'.
C27_LabelFollowsContainer ==
    /\ [](pcApp \in {"composed", "running"} =>
            /\ components.shownButton \in {"Hide information", "Show information"}
            /\ (components.shownButton = "Hide information")
                   <=> components.inspectorContainer_shown)
    /\ [][/\ ClickShownButton =>
               /\ components'.inspectorContainer_shown = ~components.inspectorContainer_shown
               /\ components'.shownButton # components.shownButton
          /\ \A coords \in ClickCoords :
                (ClickMapAt(coords) /\ filterBoundsATETs(coords["lon"]) # <<>>) =>
                    /\ components'.inspectorContainer_shown
                    /\ components'.shownButton = "Hide information"]_vars

\* No transect lies within 90 m of the longitude.
FarFromTransects(lon) == \A t \in Range(ATETs) : DistanceTo(t, lon) > 90

\* C28: a map click with no transect within 90 m changes nothing of the
\* components (the inspector panel's shown flag, the button label, the six
\* inspector values, the chart panel and map layer 5 included); the URL
\* takes the coordinates of the click.
C28_MissedClickChangesUrlOnly ==
    [][\A coords \in ClickCoords :
          (ClickMapAt(coords) /\ FarFromTransects(coords["lon"])) =>
              /\ components' = components
              /\ url' = ("click_lon" :> coords["lon"]) @@ ("click_lat" :> coords["lat"])]_vars

\* The last click was far from every transect, after a click that filled
\* the inspector: the inspector still shows the transect of the earlier click.
C28_Witness ==
    /\ pcApp = "running"
    /\ "click_lon" \in DOMAIN url
    /\ FarFromTransects(url["click_lon"])
    /\ Len(components.layers) = 6
    /\ ~FarFromTransects(ClickedLon)
    /\ components.inspectorValues.ID = 1

\* The layers of the map whose slot, counted from 0, is written by a step.
WrittenSlots ==
    {k \in 0..5 : /\ k + 1 \in DOMAIN components'.layers
                  /\ (k + 1 \in DOMAIN components.layers =>
                         components'.layers[k + 1] # components.layers[k + 1])}

\* The layer of every slot is the one that the handler of the slot makes.
LayersInTheirSlots ==
    \A k \in DOMAIN components.layers :
        LET name == components.layers[k].name
        IN  CASE k = 1 -> name = <<components.diffSelector, "mountain level">>
              [] k = 2 -> name = <<components.diffSelector, "watershed level">>
              [] k = 3 -> name = <<components.diffSelector, "transect level">>
              [] k = 4 -> name = "Global ATETs"
              [] k = 5 -> name = "Global ATECs"
              [] k = 6 -> name = "Clicked point"

\* C30: every handler writes the layer of its own slot only (mountain
\* difference 0, watershed difference 1, transect difference 2, raw transects
\* 3, centroids 4, clicked point 5) and no other slot changes; after the
\* initialization the slots 0 to 4 exist, each with the layer of its
\* handler, so that no write went past the end of the layers and the
\* clicked point was written after the slots 0 to 4.
C30_OneSlotPerHandler ==
    /\ [](pcApp = "running" =>
            /\ Len(components.layers) \in {5, 6}
            /\ LayersInTheirSlots)
    /\ [][/\ Len(components'.layers) >= Len(components.layers)
          /\ \A k \in DOMAIN components.layers \ {s + 1 : s \in WrittenSlots} :
                components'.layers[k] = components.layers[k]
          /\ ToggleMountainLevel => WrittenSlots = {0}
          /\ ToggleWatershedLevel => WrittenSlots = {1}
          /\ ToggleTransectLevel =>
                WrittenSlots = IF components.transectCheckbox THEN {2, 3} ELSE {2}
          /\ ToggleTransectCheckbox =>
                WrittenSlots = IF components.transect THEN {2, 3} ELSE {3}
          /\ ToggleCentroidCheckbox => WrittenSlots = {4}
          /\ ClickMap => WrittenSlots \subseteq {5}
          /\ ChangeDifference => {0, 1, 2} \subseteq WrittenSlots
          /\ Initialize =>
                WrittenSlots \in {0..4, 0..5}]_vars

\* The app was loaded without a click, the centroids were displayed and a
\* transect was then clicked: the clicked point is the sixth layer.
C30_Witness ==
    /\ pcApp = "running"
    /\ Len(components.layers) = 6
    /\ components.layers[5].shown
    /\ components.layers[6].eeObject.point["lon"] = 240
    /\ components.diffSelector = NDVIDifference

----------------------------------------------------------------------------
(* Properties of the basin ID extraction *)

\* The selected basins that intersect the centroid of a centerline.
BasinsAtCentroid(centerline) ==
    {basins_FC[b].props.HYBAS_ID : b \in
        {j \in DOMAIN basins_FC :
            Intersects(CentroidFeature(centerline).geom, basins_FC[j].geom)}}

\* The raw centerlines that an output centerline can be: the same geometry
\* and the same properties but for HYBAS_ID.
RawCenterlinesOf(centerline) ==
    {i \in DOMAIN rawCenterlines_FC :
        /\ rawCenterlines_FC[i].geom = centerline.geom
        /\ \A name \in DOMAIN rawCenterlines_FC[i].props :
              centerline.props[name] = rawCenterlines_FC[i].props[name]}

\* C24 as claimed: every centerline of RawCenterlines_withBasinIDs is a raw
\* centerline with the HYBAS_ID of a selected basin that intersects its own
\* centroid added, and a raw centerline whose centroid intersects no
\* selected basin is not in the output.
C24_BasinOfOwnCentroid ==
    pcBI = "centerlineIDs" =>
        /\ \A k \in DOMAIN centerlines_withBasinIDs_FC :
              LET centerline == centerlines_withBasinIDs_FC[k]
              IN  /\ RawCenterlinesOf(centerline) # {}
                  /\ DOMAIN centerline.props =
                         DOMAIN rawCenterlines_FC[1].props \cup {"HYBAS_ID"}
                  /\ centerline.props.HYBAS_ID \in BasinsAtCentroid(centerline)
        /\ Len(centerlines_withBasinIDs_FC) <= Len(rawCenterlines_FC)
        /\ \A i \in DOMAIN rawCenterlines_FC :
              BasinsAtCentroid(rawCenterlines_FC[i]) = {} =>
                  \A k \in DOMAIN centerlines_withBasinIDs_FC :
                      centerlines_withBasinIDs_FC[k].geom # rawCenterlines_FC[i].geom

----------------------------------------------------------------------------
(* Properties of the broad alpine treeline ecotone *)

\* C29: a pixel is in the broad ATE mask exactly when it is in the
\* fundamental niche edge, its elevation is at least the smoothed regional
\* forest elevation there, a pixel of the local closed forests lies within
\* 100 pixels of it, and it is mapped land; the mask has no 0: the pixels
\* below the regional forest elevation are masked, and the mask lies within
\* the fundamental niche edge.
C29_BroadATE ==
    pcBA = "broadATE" =>
        /\ \A p \in NEPixels :
              p \in DOMAIN broad_ATE <=>
                  /\ p \in DOMAIN fund_Niche_Edge
                  /\ p \in DOMAIN smoothed_Elv_10km
                  /\ ALOSelv[p] >= smoothed_Elv_10km[p]
                  /\ \E q \in DOMAIN local_Forest_Elv : SqPixelDist(p, q) <= 100 * 100
                  /\ land[p] = 1
        /\ \A p \in DOMAIN broad_ATE : broad_ATE[p] = 1
        /\ DOMAIN broad_ATE \subseteq DOMAIN fund_Niche_Edge

\* A pixel is in the mask; another one, of the niche edge, on land and at
\* 100 pixels from a closed forest, is below the regional forest elevation
\* and masked; a third one is 101 pixels from the nearest closed forest.
C29_Witness ==
    /\ pcBA = "broadATE"
    /\ <<0, 0>> \in DOMAIN broad_ATE
    /\ <<100, 0>> \in DOMAIN real_Niche_Edge
    /\ real_Niche_Edge[<<100, 0>>] = 0
    /\ land[<<100, 0>>] = 1
    /\ <<100, 0>> \notin DOMAIN broad_ATE
    /\ DOMAIN local_Forest_Elv = {<<0, 0>>}
    /\ ALOSelv[<<201, 0>>] >= smoothed_Elv_10km[<<201, 0>>]
    /\ <<201, 0>> \notin DOMAIN broad_ATE

====
